---- MODULE Spec2Model ----
(***************************************************************************)
(* Model of the ACP client extension (gayanper/vscode-acp-provider):        *)
(*   - PermissionPromptManager        (src/src/permissionPrompts.ts)        *)
(*   - AcpChatParticipant.handleRequest (src/src/acpChatParticipant.ts)     *)
(*   - AcpClientImpl, the connection manager (src/src/acpClient.ts)         *)
(*   - SessionManager                 (src/src/acpSessionManager.ts)        *)
(* Each component has its own specification (SpecPerm, SpecClient,          *)
(* SpecSess); the variables of the components a specification does not      *)
(* exercise keep their initial value.                                       *)
(***************************************************************************)
EXTENDS Integers, Sequences, FiniteSets, TLC

\* ------------------------------------------------------------------ bounds
SessionIds == {"s1", "s2"}
MaxRequests == 3
MaxPrompts == 2
MaxCalls == 2
MaxProcs == 2
MaxNotifs == 3
MaxOps == 3
MaxUpdates == 2
MaxEvents == 1
MaxToolOps == 2
MaxTextLen == 3
MaxFed == 3
MaxOptionChanges == 2
MaxTraces == 2
MaxRenders == 2
MaxToolNotifs == 3
MaxUpserts == 3
MaxTerminals == 2
MaxChunks == 3
MaxChunkLen == 2
DEFAULT_TERMINAL_OUTPUT_LIMIT == 200000

\* ------------------------------------------------------------------- state
VARIABLES
  \* AcpChatParticipant / Session.pendingRequest
  reqs,            \* handleRequest invocations, in start order
  pendingRequest,  \* Session.pendingRequest: 0 or the request owning the record
  status,          \* Session._status
  \* PermissionPromptManager
  sessionContext,  \* the single bound SessionChatContext, or NoCtx
  pendingPrompt,   \* the single PendingPrompt slot: 0 or an index of prompts
  prompts          \* every promise returned by requestPermission

VARIABLES
  \* AcpClientImpl
  procs,           \* every agent process spawned: [alive, killed]
  agentProcess,    \* this.agentProcess: 0 or an index of procs
  connection,      \* this.connection: 0 or the process it is wired to
  readyPromise,    \* this.readyPromise: 0 or an index of promises
  promises,        \* every createConnection() promise (one handshake each)
  mode,            \* this.mode (mode-switching variant)
  stopFired,       \* number of times _onDidStop has fired
  calls,           \* outbound calls: createSession, loadSession, prompt, ...
  emitted,         \* session ids of the notifications emitted so far
  agentSessions    \* number of sessions the agent has created

VARIABLES
  \* SessionManager
  sessions,        \* every Session object constructed: [acpSessionId, status]
  activeSessions,  \* this.activeSessions: key -> index of sessions
  sessionAliases,  \* this.sessionAliases: ephemeral key -> session id
  mgrOps,          \* createOrGet invocations
  commits,         \* identity-commit events fired on onDidChangeSession
  optionEvents     \* events fired on onDidChangeSessionOptions

VARIABLES
  \* AcpClientImpl as the agent's file-system and terminal host
  workspaceFolders,         \* vscode.workspace.workspaceFolders (root paths)
  isTrusted,                \* vscode.workspace.isTrusted
  allowedWriteSessions,     \* this.allowedWriteSessions
  allowedTerminalSessions,  \* this.allowedTerminalSessions
  toolOps,                  \* writeTextFile / createTerminal requests
  terminals,                \* this.terminals: ids of the registered terminals
  fsLog                     \* file-system and spawn effects: [op, effect, path]

VARIABLES
  \* chat rendering: one diff content block of a tool call and what the
  \* diff engine made of it
  diffContent,     \* the block: [oldText, newText], or NoDiff
  diffBody,        \* what toInlineDiff returned for it, or NoResult
  diffStats        \* what buildDiffStats returned for it, or NoResult

permVars == <<reqs, pendingRequest, status, sessionContext, pendingPrompt, prompts>>

clientVars == <<procs, agentProcess, connection, readyPromise, promises, mode,
                stopFired, calls, emitted, agentSessions>>

sessVars == <<sessions, activeSessions, sessionAliases, mgrOps, commits,
              optionEvents>>

toolVars == <<workspaceFolders, isTrusted, allowedWriteSessions,
              allowedTerminalSessions, toolOps, terminals, fsLog>>

VARIABLES
  \* TurnBuilder
  currentUserMessage,  \* this.currentUserMessage
  currentAgentParts,   \* this.currentAgentParts
  agentMessageChunks,  \* this.agentMessageChunks
  turns,               \* this.turns
  fed,                 \* the notifications processed so far
  turnsRead            \* what the last getTurns() returned, and when

diffVars == <<diffContent, diffBody, diffStats>>

turnVars == <<currentUserMessage, currentAgentParts, agentMessageChunks,
              turns, fed, turnsRead>>

VARIABLES
  \* AcpChatSessionContentProvider
  optionChanges        \* provideHandleOptionsChange invocations

providerVars == <<optionChanges>>

VARIABLES
  \* Tracer
  traceHeap,           \* the objects notifications are made of, by address
  traceNotification,   \* address of the notification at hand, 0 for none
  traceCalls,          \* number of Tracer.trace calls made
  traceLog             \* the entries written by channel.trace

tracerVars == <<traceHeap, traceNotification, traceCalls, traceLog>>

\* the state of the rendering helpers and of the content provider
VARIABLES
  \* AcpClientImpl as the host of the agent's terminals
  termStates,          \* the TerminalState objects, by terminalIdCounter
  termChunks,          \* number of data events of the child processes
  termReply            \* what the last terminal call returned or threw

termVars == <<termStates, termChunks, termReply>>

VARIABLES
  \* AcpChatParticipant: the response streams of the requests
  rendered             \* per handleRequest invocation, the notifications
                       \* rendered into its response stream

renderVars == <<rendered>>

VARIABLES
  \* TurnBuilder: the tool calls
  toolParts,           \* every ChatToolInvocationPart constructed
  toolCallParts,       \* this.toolCallParts: toolCallId -> index of toolParts
  toolLast,            \* the last tool_call / tool_call_update processed
  toolNotifs           \* number of them processed

toolCallVars == <<toolParts, toolCallParts, toolLast, toolNotifs>>

VARIABLES
  \* FileSessionDb
  storeFile,           \* the records in acp-sessions.json
  tempFile,            \* acp-sessions.json.tmp: <<>> or <<its records>>
  cachedStore,         \* this.cachedStore: 0 or an index of storeObjects
  storeObjects,        \* every SessionStore object read from the file
  upserts              \* the upsertSession calls

storeVars == <<storeFile, tempFile, cachedStore, storeObjects, upserts>>

\* the components added after the tracer
extVars == <<termVars, renderVars, toolCallVars, storeVars>>

pureVars == <<diffVars, turnVars, providerVars, tracerVars, extVars>>

vars == <<reqs, pendingRequest, status, sessionContext, pendingPrompt, prompts,
          procs, agentProcess, connection, readyPromise, promises, mode,
          stopFired, calls, emitted, agentSessions,
          sessions, activeSessions, sessionAliases, mgrOps, commits,
          optionEvents,
          workspaceFolders, isTrusted, allowedWriteSessions,
          allowedTerminalSessions, toolOps, terminals, fsLog,
          diffContent, diffBody, diffStats,
          currentUserMessage, currentAgentParts, agentMessageChunks,
          turns, fed, turnsRead, optionChanges,
          traceHeap, traceNotification, traceCalls, traceLog,
          termStates, termChunks, termReply, rendered,
          toolParts, toolCallParts, toolLast, toolNotifs,
          storeFile, tempFile, cachedStore, storeObjects, upserts>>

\* ================================================================
\* PermissionPromptManager
\* ================================================================
NoCtx == [sessionId |-> "", token |-> 0]

\* The manager's mutable fields as one value, so that the private methods
\* can be composed the way the code calls them.
PmState == [sessionContext |-> sessionContext,
            pendingPrompt |-> pendingPrompt,
            prompts |-> prompts]

\* createPromptId(): `acp-permission-${this.sessionContext?.sessionId}`
createPromptId(st) == <<"acp-permission", st.sessionContext.sessionId>>

\* resolvePrompt(promptId, response): the promptId argument is not used to
\* find the prompt; whatever sits in the slot is resolved, and its
\* cancellation listener is disposed.
resolvePrompt(st, promptId, response) ==
  IF st.pendingPrompt = 0 THEN st
  ELSE [st EXCEPT !.pendingPrompt = 0,
                  !.prompts[st.pendingPrompt].listener = 0,
                  !.prompts[st.pendingPrompt].outcome = response]

\* clearSession(sessionId)
clearSession(st, sessionId) ==
  LET st1 == [st EXCEPT !.sessionContext = NoCtx] IN
  IF st1.pendingPrompt # 0 /\ st1.prompts[st1.pendingPrompt].sessionId = sessionId
  THEN resolvePrompt(st1, st1.prompts[st1.pendingPrompt].promptId, "cancelled")
  ELSE st1

\* bindSessionResponse(context); token is the request whose token is bound
bindSessionResponse(st, sessionId, token) ==
  [clearSession(st, sessionId) EXCEPT
     !.sessionContext = [sessionId |-> sessionId, token |-> token]]

\* the vscode.Disposable returned by bindSessionResponse
bindingDisposer(st) ==
  IF st.sessionContext # NoCtx
  THEN clearSession(st, st.sessionContext.sessionId)
  ELSE st

\* A vscode.Disposable runs its callback on the first dispose() only.
disposeBinding(st, rs, r) ==
  IF r = 0 \/ rs[r].bindDisposed THEN st ELSE bindingDisposer(st)

markDisposed(rs, r) ==
  IF r = 0 THEN rs ELSE [rs EXCEPT ![r].bindDisposed = TRUE]

\* ================================================================
\* AcpChatParticipant.handleRequest
\* ================================================================
LatestRequestOf(rs, s) ==
  LET idx == {i \in 1..Len(rs) : rs[i].session = s} IN
  IF idx = {} THEN 0 ELSE CHOOSE i \in idx : \A j \in idx : j <= i

\* A handleRequest invocation: its token (cancelled by the host), its own
\* CancellationTokenSource and the Disposable of its permission binding.
\* The finally block disposes all three.
Started(s) ==
  [session |-> s, pc |-> "prompting", tokenCancelled |-> FALSE,
   ctsCancelled |-> FALSE, bindDisposed |-> FALSE]

Finished(s) ==
  [session |-> s, pc |-> "done", tokenCancelled |-> FALSE,
   ctsCancelled |-> FALSE, bindDisposed |-> TRUE]

\* cancelPendingRequest(session)
cancelPendingRequest(rs, prev) ==
  IF prev = 0 THEN rs
  ELSE [rs EXCEPT ![prev].ctsCancelled = TRUE, ![prev].bindDisposed = TRUE]

\* handleRequest up to `await session.client.prompt(...)`; with an empty
\* prompt the handler returns through its finally block at once.
HandleRequestStart(s, empty) ==
  /\ Len(reqs) < MaxRequests
  /\ LET r    == Len(reqs) + 1
         prev == pendingRequest[s]
         \* cancelPendingRequest
         st1  == disposeBinding(PmState, reqs, prev)
         rs1  == cancelPendingRequest(reqs, prev)
         \* session.pendingRequest = { cancellation }; refreshPermissionContext
         st2  == bindSessionResponse(st1, s, r)
         \* empty prompt: markAsCompleted, return, finally
         st3  == IF empty THEN bindingDisposer(st2) ELSE st2
     IN /\ reqs' = Append(rs1, IF empty THEN Finished(s) ELSE Started(s))
        /\ pendingRequest' = [pendingRequest EXCEPT ![s] = IF empty THEN 0 ELSE r]
        /\ status' = [status EXCEPT ![s] = IF empty THEN "completed" ELSE "running"]
        /\ sessionContext' = st3.sessionContext
        /\ pendingPrompt' = st3.pendingPrompt
        /\ prompts' = st3.prompts
  /\ UNCHANGED clientVars
  /\ UNCHANGED sessVars
  /\ UNCHANGED <<toolVars, pureVars>>

\* client.prompt settles (ok) or rejects; then the catch and finally blocks
PromptSettles(r, ok) ==
  /\ r \in 1..Len(reqs)
  /\ reqs[r].pc = "prompting"
  /\ LET s   == reqs[r].session
         cur == pendingRequest[s]
         st1 == disposeBinding(PmState, reqs, cur)
         rs1 == markDisposed(reqs, cur)
     IN /\ reqs' = [rs1 EXCEPT ![r] = Finished(s)]
        /\ pendingRequest' = [pendingRequest EXCEPT ![s] = 0]
        /\ status' = IF reqs[r].tokenCancelled THEN status
                     ELSE [status EXCEPT ![s] = IF ok THEN "completed" ELSE "failed"]
        /\ sessionContext' = st1.sessionContext
        /\ pendingPrompt' = st1.pendingPrompt
        /\ prompts' = st1.prompts
  /\ UNCHANGED clientVars
  /\ UNCHANGED sessVars
  /\ UNCHANGED <<toolVars, pureVars>>

\* The host cancels the request's token.  Its listeners run synchronously in
\* registration order: cancellationRegistration first, then the listener of
\* every prompt that was raised under a context carrying this token.
CancelToken(r) ==
  /\ r \in 1..Len(reqs)
  /\ reqs[r].pc = "prompting"
  /\ ~reqs[r].tokenCancelled
  /\ LET s     == reqs[r].session
         owns  == pendingRequest[s] = r
         st1   == IF owns THEN disposeBinding(PmState, reqs, r) ELSE PmState
         rs1   == IF owns THEN markDisposed(reqs, r) ELSE reqs
         heard == \E p \in 1..Len(st1.prompts) : st1.prompts[p].listener = r
         st2   == IF heard THEN resolvePrompt(st1, <<>>, "cancelled") ELSE st1
         isTurn == LatestRequestOf(reqs, s) = r
     IN /\ reqs' = [rs1 EXCEPT ![r].tokenCancelled = TRUE, ![r].ctsCancelled = TRUE]
        /\ prompts' = [p \in 1..Len(prompts) |->
              [st2.prompts[p] EXCEPT
                 !.listener = IF @ = r THEN 0 ELSE @,
                 !.awaitedAtCancel =
                    @ \/ (isTurn /\ prompts[p].via = "chat"
                          /\ prompts[p].sessionId = s
                          /\ prompts[p].outcome = "pending")]]
        /\ sessionContext' = st2.sessionContext
        /\ pendingPrompt' = st2.pendingPrompt
        /\ UNCHANGED <<pendingRequest, status>>
  /\ UNCHANGED clientVars
  /\ UNCHANGED sessVars
  /\ UNCHANGED <<toolVars, pureVars>>

\* ================================================================
\* PermissionPromptManager, public operations
\* ================================================================
NewPrompt(id, s, via, token) ==
  [promptId |-> id, sessionId |-> s, via |-> via, listener |-> token,
   carousel |-> (via = "chat"), outcome |-> "pending",
   awaitedAtCancel |-> FALSE]

\* requestPermission(request), issued by the agent during a prompt turn of
\* request.sessionId
RequestPermission(s) ==
  /\ Len(prompts) < MaxPrompts
  /\ \E r \in 1..Len(reqs) : reqs[r].session = s /\ reqs[r].pc = "prompting"
  /\ IF sessionContext = NoCtx
     THEN \* promptViaModal
          /\ prompts' = Append(prompts, NewPrompt(<<>>, s, "modal", 0))
          /\ UNCHANGED pendingPrompt
     ELSE /\ prompts' = Append(prompts,
                 NewPrompt(createPromptId(PmState), s, "chat", sessionContext.token))
          /\ pendingPrompt' = Len(prompts) + 1
  /\ UNCHANGED <<reqs, pendingRequest, status, sessionContext>>
  /\ UNCHANGED clientVars
  /\ UNCHANGED sessVars
  /\ UNCHANGED <<toolVars, pureVars>>

\* showWarningMessage of promptViaModal returns
ModalAnswered(p, selected) ==
  /\ p \in 1..Len(prompts)
  /\ prompts[p].via = "modal"
  /\ prompts[p].outcome = "pending"
  /\ prompts' = [prompts EXCEPT
        ![p].outcome = IF selected THEN "selected" ELSE "cancelled"]
  /\ UNCHANGED <<reqs, pendingRequest, status, sessionContext, pendingPrompt>>
  /\ UNCHANGED clientVars
  /\ UNCHANGED sessVars
  /\ UNCHANGED <<toolVars, pureVars>>

\* renderChatPrompt after `await context.response.questionCarousel(...)`;
\* answer is "dismiss" (no answers), "bogus" (no such option) or "allow"
CarouselAnswers == {"dismiss", "bogus", "allow"}

CarouselAnswered(p, answer) ==
  /\ p \in 1..Len(prompts)
  /\ prompts[p].carousel
  /\ LET st0 == [PmState EXCEPT !.prompts[p].carousel = FALSE]
         same == st0.pendingPrompt # 0
                 /\ st0.prompts[st0.pendingPrompt].promptId = st0.prompts[p].promptId
         st1 == IF answer = "allow" /\ same
                THEN resolvePrompt(st0, st0.prompts[p].promptId, "selected")
                ELSE resolvePrompt(st0, st0.prompts[p].promptId, "cancelled")
     IN /\ prompts' = st1.prompts
        /\ pendingPrompt' = st1.pendingPrompt
  /\ UNCHANGED <<reqs, pendingRequest, status, sessionContext>>
  /\ UNCHANGED clientVars
  /\ UNCHANGED sessVars
  /\ UNCHANGED <<toolVars, pureVars>>

\* resolveFromCommand(payload)
PayloadPromptIds == {<<"acp-permission", s>> : s \in SessionIds}
PayloadOptionIds == {"", "allow", "bogus"}

resolveFromCommand(st, payload) ==
  LET pending == st.pendingPrompt IN
  IF payload.promptId = <<>> \/ payload.sessionId = "" THEN st
  ELSE IF pending = 0 \/ st.prompts[pending].sessionId # payload.sessionId THEN st
  ELSE IF payload.optionId = "allow"
       THEN resolvePrompt(st, st.prompts[pending].promptId, "selected")
       ELSE resolvePrompt(st, st.prompts[pending].promptId, "cancelled")

ResolveFromCommand(promptId, sessionId, optionId) ==
  /\ LET st1 == resolveFromCommand(PmState,
                  [promptId |-> promptId, sessionId |-> sessionId,
                   optionId |-> optionId])
     IN /\ prompts' = st1.prompts
        /\ pendingPrompt' = st1.pendingPrompt
  /\ UNCHANGED <<reqs, pendingRequest, status, sessionContext>>
  /\ UNCHANGED clientVars
  /\ UNCHANGED sessVars
  /\ UNCHANGED <<toolVars, pureVars>>

\* ================================================================
\* SessionManager
\* ================================================================
\* resources of new chats ("untitled-..." session ids) and the ids the agent
\* issues; both serve as keys of the active map and the alias table
EphemeralResources == {<<"untitled", 1>>, <<"untitled", 2>>}

AgentSessionId(n) == <<"session", n>>

SmState == [sessions |-> sessions, activeSessions |-> activeSessions,
            sessionAliases |-> sessionAliases, mgrOps |-> mgrOps,
            commits |-> commits, optionEvents |-> optionEvents]

SetSmState(st) ==
  /\ sessions' = st.sessions
  /\ activeSessions' = st.activeSessions
  /\ sessionAliases' = st.sessionAliases
  /\ mgrOps' = st.mgrOps
  /\ commits' = st.commits
  /\ optionEvents' = st.optionEvents

\* new Session(...): the constructor sets the status InProgress
NewSession(acpSessionId) ==
  [acpSessionId |-> acpSessionId, status |-> "InProgress",
   modeId |-> "", modelId |-> ""]

\* getActiveKey(resource): an untitled resource is its own key
getActiveKey(resource) == resource

\* resolveActiveKey(resource): this.sessionAliases.get(key) ?? key
resolveActiveKey(aliases, resource) ==
  LET key == getActiveKey(resource) IN
  IF key \in DOMAIN aliases THEN aliases[key] ELSE key

\* getActive(resource): the Session object under the resolved key, or 0
getActive(active, aliases, resource) ==
  LET key == resolveActiveKey(aliases, resource) IN
  IF key \in DOMAIN active THEN active[key] ELSE 0

\* The constructor of SessionManager subscribes to client.onDidOptionsChanged
\* and to sessionDb.onDataChanged; no listener is registered on
\* client.onDidStop, so a stop event leaves every Session as it is.
onDidStopListeners(ss) == ss

\* createOrGet, untitled branch, after `await this.client.createSession`:
\* a Session is constructed for the id the agent returned, the alias and
\* the active map are set and the identity commit is fired.
commitCreated(st, m, acpSessionId) ==
  LET obj == Len(st.sessions) + 1
      aliasKey == getActiveKey(st.mgrOps[m].resource) IN
  [st EXCEPT !.sessions = Append(@, NewSession(acpSessionId)),
             !.sessionAliases = (aliasKey :> acpSessionId) @@ @,
             !.activeSessions = (acpSessionId :> obj) @@ @,
             !.commits = @ + 1,
             !.mgrOps[m] = [@ EXCEPT !.pc = "done", !.result = obj]]

\* createOrGet, persisted branch, after `await this.client.loadSession`:
\* a Session is constructed for the session found on disk and set in the
\* active map under the session id
commitLoaded(st, m) ==
  LET obj == Len(st.sessions) + 1
      key == getActiveKey(st.mgrOps[m].resource) IN
  [st EXCEPT !.sessions = Append(@, NewSession(st.mgrOps[m].resource)),
             !.activeSessions = (key :> obj) @@ @,
             !.mgrOps[m] = [@ EXCEPT !.pc = "done", !.result = obj]]

\* the createOrGet invocations whose createSession or loadSession call has
\* just settled resume: with the new session, or by throwing the call's
\* error
resumeCreateOrGet(st, cs) ==
  LET waiting == {m \in 1..Len(st.mgrOps) :
                     st.mgrOps[m].pc \in {"awaitCreate", "awaitLoad"}}
      failed == {m \in waiting : cs[st.mgrOps[m].call].pc = "failed"}
      created == {m \in waiting : /\ st.mgrOps[m].pc = "awaitCreate"
                                  /\ cs[st.mgrOps[m].call].pc = "done"}
      loaded == {m \in waiting : /\ st.mgrOps[m].pc = "awaitLoad"
                                 /\ cs[st.mgrOps[m].call].pc = "done"}
      st1 == [st EXCEPT !.mgrOps = [m \in 1..Len(st.mgrOps) |->
                 IF m \in failed THEN [st.mgrOps[m] EXCEPT !.pc = "failed"]
                 ELSE st.mgrOps[m]]]
  IN IF created # {}
     THEN LET m == CHOOSE x \in created : TRUE IN
          commitCreated(st1, m, AgentSessionId(cs[st1.mgrOps[m].call].result))
     ELSE IF loaded # {}
     THEN commitLoaded(st1, CHOOSE x \in loaded : TRUE)
     ELSE st1

\* the sessions the store holds when the extension starts, and the
\* resources of stored sessions a chat can be opened on
DiskSessionIds == {<<"session", 0>>}

PersistedResources == {<<"session", 0>>, <<"session", 1>>}

\* syncSessionState(vscodeResource, modified); the key of
\* modified.vscodeResource is the protocol session id of the Session
syncSessionState(st, resource, modified) ==
  LET key == resolveActiveKey(st.sessionAliases, resource)
      nextKey == st.sessions[modified].acpSessionId
  IN IF key \notin DOMAIN st.activeSessions THEN st
     ELSE IF nextKey # key
     THEN [st EXCEPT
             !.activeSessions =
                 (nextKey :> modified)
                   @@ [k \in (DOMAIN st.activeSessions) \ {key} |->
                          st.activeSessions[k]],
             !.sessionAliases = (getActiveKey(resource) :> nextKey) @@ @,
             !.commits = @ + 1]
     ELSE [st EXCEPT !.activeSessions = (key :> modified) @@ @,
                     !.commits = @ + 1]

\* ================================================================
\* AcpClientImpl, the connection manager
\* ================================================================
ClientOps == {"createSession", "loadSession", "prompt", "changeMode", "changeModel"}

ClState == [procs |-> procs, agentProcess |-> agentProcess,
            connection |-> connection, readyPromise |-> readyPromise,
            promises |-> promises]

\* ensureAgentRunning()
ensureAgentRunning(st) ==
  IF st.agentProcess # 0 /\ ~st.procs[st.agentProcess].killed
  THEN st
  ELSE [st EXCEPT !.procs = Append(@, [alive |-> TRUE, killed |-> FALSE]),
                  !.agentProcess = Len(st.procs) + 1]

\* this.readyPromise = this.createConnection(mode), up to
\* `await this.connection.initialize(...)`
createConnection(st, m) ==
  LET st1 == ensureAgentRunning(st) IN
  [st1 EXCEPT !.connection = st1.agentProcess,
              !.promises = Append(@, [state |-> "pending", response |-> "",
                                      conn |-> st1.agentProcess, mode |-> m]),
              !.readyPromise = Len(st1.promises) + 1]

\* whether createConnection would have to spawn a process
NeedsSpawn(st) == st.agentProcess = 0 \/ st.procs[st.agentProcess].killed

\* a subscription that forgets to compare the session id
loadSessionCapturesAll(sessionId, notification) == TRUE

\* the listener loadSession subscribes on onSessionUpdate
loadSessionCaptures(sessionId, notification) == notification = sessionId

NewCall(op, sid, em) ==
  [op |-> op, sid |-> sid, em |-> em, pc |-> "awaitReady", creator |-> FALSE,
   promise |-> 0, conn |-> 0, subscribed |-> FALSE, captured |-> <<>>,
   from |-> 0, to |-> 0, result |-> 0]

\* after `await this.ensureReady()`: the connection check and the RPC;
\* loadSession subscribes to onSessionUpdate before it sends the RPC
sendRpc(call, conn, emittedLen) ==
  IF conn = 0
  THEN [call EXCEPT !.pc = "failed", !.promise = 0, !.creator = FALSE]
  ELSE [call EXCEPT !.pc = "awaitRpc", !.conn = conn, !.promise = 0,
                    !.creator = FALSE,
                    !.subscribed = (call.op = "loadSession"),
                    !.from = IF call.op = "loadSession" THEN emittedLen ELSE 0]

SetClState(st) ==
  /\ procs' = st.procs
  /\ agentProcess' = st.agentProcess
  /\ connection' = st.connection
  /\ readyPromise' = st.readyPromise
  /\ promises' = st.promises

SidsOf(op) == IF op = "loadSession" THEN SessionIds ELSE {"-"}

\* a ready promise handed out again only once it has resolved
returnsResolvedPromiseOnly(st) ==
  st.readyPromise # 0 /\ st.promises[st.readyPromise].state = "resolved"

\* ensureReady(): `if (this.readyPromise) return this.readyPromise`
returnsReadyPromise(st) == st.readyPromise # 0

\* ensureReady(): createSession, loadSession, prompt, changeMode and
\* changeModel all begin with `await this.ensureReady()`
StartCall(op, sid) ==
  /\ Len(calls) < MaxCalls
  /\ sid \in SidsOf(op)
  /\ IF returnsReadyPromise(ClState)
     THEN /\ calls' = Append(calls,
                IF promises[readyPromise].state = "resolved"
                THEN sendRpc(NewCall(op, sid, mode), connection, Len(emitted))
                ELSE [NewCall(op, sid, mode) EXCEPT !.promise = readyPromise])
          /\ UNCHANGED <<procs, agentProcess, connection, readyPromise, promises>>
     ELSE /\ NeedsSpawn(ClState) => Len(procs) < MaxProcs
          /\ LET st1 == createConnection(ClState, mode) IN
             /\ SetClState(st1)
             /\ calls' = Append(calls,
                   [NewCall(op, sid, mode) EXCEPT !.creator = TRUE,
                                                  !.promise = st1.readyPromise])
  /\ UNCHANGED <<mode, stopFired, emitted, agentSessions>>

\* an outbound call made by the chat participant or the content provider
CallStart(op, sid) ==
  /\ StartCall(op, sid)
  /\ UNCHANGED permVars
  /\ UNCHANGED <<toolVars, pureVars>>
  /\ UNCHANGED sessVars

\* createConnection after `await this.connection.initialize(...)`: an error
\* response rejects; any result object is taken as it is, its
\* agentCapabilities stored and onDidStart fired
handshakeOutcome(response) ==
  IF response = "error" THEN "rejected" ELSE "resolved"

\* The initialize RPC settles; the callers awaiting the ready promise resume
\* in the same tick: the one that made the promise clears readyPromise in
\* its catch block when it rejected, the others send their RPC or fail.
InitializeResponds(i, ok) ==
  /\ i \in 1..Len(promises)
  /\ promises[i].state = "pending"
  /\ ok => procs[promises[i].conn].alive
  /\ promises' = [promises EXCEPT ![i].state = handshakeOutcome(IF ok THEN "valid" ELSE "error"),
                                  ![i].response = IF ok THEN "valid" ELSE "error"]
  /\ mode' = IF ok THEN promises[i].mode ELSE mode
  /\ readyPromise' =
        IF ~ok /\ (\E c \in 1..Len(calls) :
                      calls[c].pc = "awaitReady" /\ calls[c].promise = i
                      /\ calls[c].creator)
        THEN 0 ELSE readyPromise
  /\ calls' = [c \in 1..Len(calls) |->
        IF calls[c].pc = "awaitReady" /\ calls[c].promise = i
        THEN IF ok THEN sendRpc(calls[c], connection, Len(emitted))
             ELSE [calls[c] EXCEPT !.pc = "failed", !.promise = 0,
                                   !.creator = FALSE]
        ELSE calls[c]]
  /\ UNCHANGED <<procs, agentProcess, connection, stopFired, emitted, agentSessions>>
  /\ UNCHANGED permVars
  /\ UNCHANGED <<toolVars, pureVars>>
  /\ SetSmState(resumeCreateOrGet(SmState, calls'))

\* The agent answers initialize with a result that is not a valid
\* InitializeResponse (no agentCapabilities, another protocolVersion).
InitializeRespondsMalformed(i) ==
  /\ i \in 1..Len(promises)
  /\ promises[i].state = "pending"
  /\ procs[promises[i].conn].alive
  /\ promises' = [promises EXCEPT ![i].state = handshakeOutcome("malformed"),
                                  ![i].response = "malformed"]
  /\ mode' = promises[i].mode
  /\ readyPromise' = readyPromise
  /\ calls' = [c \in 1..Len(calls) |->
        IF calls[c].pc = "awaitReady" /\ calls[c].promise = i
        THEN sendRpc(calls[c], connection, Len(emitted))
        ELSE calls[c]]
  /\ UNCHANGED <<procs, agentProcess, connection, stopFired, emitted, agentSessions>>
  /\ UNCHANGED permVars
  /\ UNCHANGED <<toolVars, pureVars>>
  /\ SetSmState(resumeCreateOrGet(SmState, calls'))

\* The RPC of a call settles; a response needs a live agent.  newSession
\* returns a fresh session id; loadSession disposes its subscription in its
\* finally block, on success and on failure.
RpcSettles(c, ok) ==
  /\ c \in 1..Len(calls)
  /\ calls[c].pc = "awaitRpc"
  /\ ok => procs[calls[c].conn].alive
  /\ LET fresh == ok /\ calls[c].op = "createSession" IN
     /\ agentSessions' = IF fresh THEN agentSessions + 1 ELSE agentSessions
     /\ calls' = [calls EXCEPT ![c].pc = IF ok THEN "done" ELSE "failed",
                               ![c].subscribed = FALSE,
                               ![c].conn = 0,
                               ![c].to = IF calls[c].op = "loadSession"
                                         THEN Len(emitted) ELSE 0,
                               ![c].result = IF fresh THEN agentSessions + 1 ELSE 0]
  /\ UNCHANGED <<procs, agentProcess, connection, readyPromise, promises, mode,
                 stopFired, emitted>>
  /\ UNCHANGED permVars
  /\ UNCHANGED <<toolVars, pureVars>>
  /\ SetSmState(resumeCreateOrGet(SmState, calls'))

\* sessionUpdate(notification): re-emitted on onSessionUpdate; every
\* loadSession call still subscribed sees it
SessionUpdate(sid) ==
  /\ Len(emitted) < MaxNotifs
  /\ \E p \in 1..Len(procs) : procs[p].alive
  /\ emitted' = Append(emitted, sid)
  /\ calls' = [c \in 1..Len(calls) |->
        IF calls[c].subscribed /\ loadSessionCaptures(calls[c].sid, sid)
        THEN [calls[c] EXCEPT !.captured = Append(@, sid)]
        ELSE calls[c]]
  /\ UNCHANGED <<procs, agentProcess, connection, readyPromise, promises, mode,
                 stopFired, agentSessions>>
  /\ UNCHANGED permVars
  /\ UNCHANGED <<toolVars, pureVars>>
  /\ UNCHANGED sessVars

\* The agent process exits; its "exit" handler logs and fires _onDidStop,
\* which runs the listeners registered on onDidStop.
AgentExit(p) ==
  /\ p \in 1..Len(procs)
  /\ procs[p].alive
  /\ procs' = [procs EXCEPT ![p].alive = FALSE]
  /\ stopFired' = stopFired + 1
  /\ sessions' = onDidStopListeners(sessions)
  /\ UNCHANGED <<agentProcess, connection, readyPromise, promises, mode, calls,
                 emitted, agentSessions>>
  /\ UNCHANGED <<activeSessions, sessionAliases, mgrOps, commits, optionEvents>>
  /\ UNCHANGED permVars
  /\ UNCHANGED <<toolVars, pureVars>>

\* ---------------------------------------------- the mode-switching variant
\* the mode each operation passes to ensureReady(expectedMode)
expectedModeOf(op) ==
  IF op = "createSession" THEN "new_session"
  ELSE IF op = "loadSession" THEN "load_session"
  ELSE mode

\* stopProcess(), after its await: the three fields are cleared
stopProcessClears(st) ==
  [st EXCEPT !.agentProcess = 0, !.connection = 0, !.readyPromise = 0]

\* ensureReady(expectedMode): the ready promise is reused only when the
\* client is in the expected mode; otherwise the agent process is killed,
\* the call waits for the connection to close and then reconnects.
CallStartMode(op, sid) ==
  /\ Len(calls) < MaxCalls
  /\ sid \in SidsOf(op)
  /\ LET em == expectedModeOf(op) IN
     IF readyPromise # 0 /\ mode = em
     THEN /\ calls' = Append(calls,
                IF promises[readyPromise].state = "resolved"
                THEN sendRpc(NewCall(op, sid, em), connection, Len(emitted))
                ELSE [NewCall(op, sid, em) EXCEPT !.promise = readyPromise])
          /\ UNCHANGED <<procs, agentProcess, connection, readyPromise, promises>>
     ELSE IF agentProcess # 0 /\ ~procs[agentProcess].killed
     THEN /\ procs' = [procs EXCEPT ![agentProcess].killed = procs[agentProcess].alive]
          /\ calls' = Append(calls,
                [NewCall(op, sid, em) EXCEPT !.pc = "awaitClosed",
                                             !.conn = connection])
          /\ UNCHANGED <<agentProcess, connection, readyPromise, promises>>
     ELSE /\ Len(procs) < MaxProcs
          /\ LET st1 == createConnection(stopProcessClears(ClState), em) IN
             /\ SetClState(st1)
             /\ calls' = Append(calls,
                   [NewCall(op, sid, em) EXCEPT !.creator = TRUE,
                                                !.promise = st1.readyPromise])
  /\ UNCHANGED <<mode, stopFired, emitted, agentSessions>>
  /\ UNCHANGED permVars
  /\ UNCHANGED <<toolVars, pureVars>>
  /\ UNCHANGED sessVars

\* `await this.connection?.closed` returns once the killed process is gone:
\* stopProcess clears the fields and ensureReady makes a new connection.
StopProcessResumes(c) ==
  /\ c \in 1..Len(calls)
  /\ calls[c].pc = "awaitClosed"
  /\ calls[c].conn = 0 \/ ~procs[calls[c].conn].alive
  /\ Len(procs) < MaxProcs
  /\ LET st1 == createConnection(stopProcessClears(ClState), calls[c].em) IN
     /\ SetClState(st1)
     /\ calls' = [calls EXCEPT ![c].pc = "awaitReady", ![c].creator = TRUE,
                               ![c].conn = 0,
                               ![c].promise = st1.readyPromise]
  /\ UNCHANGED <<mode, stopFired, emitted, agentSessions>>
  /\ UNCHANGED permVars
  /\ UNCHANGED <<toolVars, pureVars>>
  /\ UNCHANGED sessVars

\* ------------------------------------------------------- session options
\* VscodeSessionOptions and the values an update can carry; isString is
\* `typeof update.value === "string"`
OptionIds == {"mode", "model"}

OptionValues == {"build", "plan"}

OptionUpdates ==
  {[optionId |-> o, value |-> v, isString |-> TRUE] :
       o \in OptionIds, v \in OptionValues}
  \cup {[optionId |-> "mode", value |-> "", isString |-> FALSE]}

RECURSIVE SeqsUpTo(_, _)
SeqsUpTo(S, n) ==
  IF n = 0 THEN {<<>>}
  ELSE LET shorter == SeqsUpTo(S, n - 1) IN
       shorter \cup {Append(q, x) : q \in {r \in shorter : Len(r) = n - 1}, x \in S}

UpdateLists == SeqsUpTo(OptionUpdates, MaxUpdates)

\* the filter and map at the head of updateSessionOptions
normalizedUpdates(updates) ==
  LET IsString(u) == u.isString
      kept == SelectSeq(updates, IsString) IN
  [i \in 1..Len(kept) |-> [optionId |-> kept[i].optionId, value |-> kept[i].value]]

\* the loop of updateSessionOptions: setModeId / setModelId, in order
RECURSIVE applyUpdates(_, _)
applyUpdates(session, nu) ==
  IF nu = <<>> THEN session
  ELSE LET u == Head(nu)
           s1 == IF u.optionId = "mode" THEN [session EXCEPT !.modeId = u.value]
                 ELSE IF u.optionId = "model" THEN [session EXCEPT !.modelId = u.value]
                 ELSE session
       IN applyUpdates(s1, Tail(nu))

\* an updateSessionOptions that never fires the event
updateSessionOptionsSilent(st, obj, updates, emitEvent) ==
  [st EXCEPT !.sessions[obj] = applyUpdates(@, normalizedUpdates(updates))]

\* updateSessionOptions(session, updates, emitEvent)
updateSessionOptions(st, obj, updates, emitEvent) ==
  LET nu == normalizedUpdates(updates) IN
  [st EXCEPT !.sessions[obj] = applyUpdates(@, nu),
             !.optionEvents = IF emitEvent /\ Len(nu) > 0
                              THEN Append(@, [session |-> obj, updates |-> nu])
                              ELSE @]

\* a caller of the session manager updates the options of a Session
UpdateSessionOptions(obj, updates, emitEvent) ==
  /\ obj \in 1..Len(sessions)
  /\ Len(optionEvents) < MaxEvents
  /\ SetSmState(updateSessionOptions(SmState, obj, updates, emitEvent))
  /\ UNCHANGED clientVars
  /\ UNCHANGED permVars
  /\ UNCHANGED <<toolVars, pureVars>>

\* renderSessionUpdate, case "current_mode_update": the agent reports the
\* mode it is in
RenderCurrentModeUpdate(obj, currentModeId) ==
  /\ obj \in 1..Len(sessions)
  /\ Len(optionEvents) < MaxEvents
  /\ IF currentModeId # ""
     THEN SetSmState(updateSessionOptions(SmState, obj,
             <<[optionId |-> "mode", value |-> currentModeId, isString |-> TRUE]>>,
             TRUE))
     ELSE UNCHANGED sessVars
  /\ UNCHANGED clientVars
  /\ UNCHANGED permVars
  /\ UNCHANGED <<toolVars, pureVars>>

\* createOrGet(vscodeResource) on an untitled resource, up to its first
\* await: an active Session under the resolved key is returned as it is;
\* otherwise client.createSession is called.
CreateOrGetStart(resource) ==
  /\ Len(mgrOps) < MaxOps
  /\ LET existingActive == getActive(activeSessions, sessionAliases, resource) IN
     IF existingActive # 0
     THEN /\ mgrOps' = Append(mgrOps, [resource |-> resource, pc |-> "done",
                                       call |-> 0, result |-> existingActive,
                                       existingActive |-> existingActive])
          /\ UNCHANGED clientVars
     ELSE /\ StartCall("createSession", "-")
          /\ mgrOps' = Append(mgrOps, [resource |-> resource, pc |-> "awaitCreate",
                                       call |-> Len(calls) + 1, result |-> 0,
                                       existingActive |-> 0])
  /\ UNCHANGED <<sessions, activeSessions, sessionAliases, commits, optionEvents>>
  /\ UNCHANGED permVars
  /\ UNCHANGED <<toolVars, pureVars>>

\* createOrGet(vscodeResource) on the resource of a stored session, up to
\* `await this.client.loadSession`; onDisk tells whether this.get finds
\* the session in the store, and the client is given the id as "s1"
CreateOrGetPersisted(resource, onDisk) ==
  /\ Len(mgrOps) < MaxOps
  /\ resource \in DiskSessionIds => onDisk
  /\ onDisk => \/ resource \in DiskSessionIds
               \/ \E obj \in 1..Len(sessions) : sessions[obj].acpSessionId = resource
  /\ IF onDisk
     THEN /\ StartCall("loadSession", "s1")
          /\ mgrOps' = Append(mgrOps, [resource |-> resource, pc |-> "awaitLoad",
                                       call |-> Len(calls) + 1, result |-> 0,
                                       existingActive |->
                                          getActive(activeSessions, sessionAliases,
                                                    resource)])
     ELSE /\ mgrOps' = Append(mgrOps, [resource |-> resource, pc |-> "failed",
                                       call |-> 0, result |-> 0,
                                       existingActive |->
                                          getActive(activeSessions, sessionAliases,
                                                    resource)])
          /\ UNCHANGED clientVars
  /\ UNCHANGED <<sessions, activeSessions, sessionAliases, commits, optionEvents>>
  /\ UNCHANGED permVars
  /\ UNCHANGED <<toolVars, pureVars>>

\* handleRequest, after the prompt has completed, calls syncSessionState
\* with the resource of the request and the Session that getActive gave it
\* for that resource when the request began
SyncSessionState(resource, modified) ==
  /\ Len(mgrOps) < MaxOps
  /\ \E m \in 1..Len(mgrOps) : /\ mgrOps[m].resource = resource
                               /\ mgrOps[m].pc = "done"
                               /\ mgrOps[m].result = modified
  /\ SetSmState([syncSessionState(SmState, resource, modified) EXCEPT
                   !.mgrOps = Append(@, [resource |-> resource, pc |-> "synced",
                                         call |-> 0, result |-> modified,
                                         existingActive |-> 0])])
  /\ UNCHANGED clientVars
  /\ UNCHANGED permVars
  /\ UNCHANGED <<toolVars, pureVars>>

SessKeysNext ==
  \/ \E resource \in EphemeralResources : CreateOrGetStart(resource)
  \/ \E resource \in PersistedResources, onDisk \in BOOLEAN :
        CreateOrGetPersisted(resource, onDisk)
  \/ \E resource \in EphemeralResources \cup PersistedResources,
        modified \in 1..MaxCalls : SyncSessionState(resource, modified)
  \/ \E i \in 1..MaxCalls, ok \in BOOLEAN : InitializeResponds(i, ok)
  \/ \E c \in 1..MaxCalls, ok \in BOOLEAN : RpcSettles(c, ok)

SessInit ==
  /\ sessions = <<>>
  /\ activeSessions = <<>>
  /\ sessionAliases = <<>>
  /\ mgrOps = <<>>
  /\ commits = 0
  /\ optionEvents = <<>>

SessNext ==
  \/ \E resource \in EphemeralResources : CreateOrGetStart(resource)
  \/ \E obj \in 1..MaxCalls, updates \in UpdateLists, emitEvent \in BOOLEAN :
        UpdateSessionOptions(obj, updates, emitEvent)
  \/ \E obj \in 1..MaxCalls, currentModeId \in OptionValues \cup {""} :
        RenderCurrentModeUpdate(obj, currentModeId)
  \/ \E i \in 1..MaxCalls, ok \in BOOLEAN : InitializeResponds(i, ok)
  \/ \E c \in 1..MaxCalls, ok \in BOOLEAN : RpcSettles(c, ok)
  \/ \E p \in 1..MaxProcs : AgentExit(p)

ClientInit ==
  /\ procs = <<>>
  /\ agentProcess = 0
  /\ connection = 0
  /\ readyPromise = 0
  /\ promises = <<>>
  /\ mode = "new_session"
  /\ stopFired = 0
  /\ calls = <<>>
  /\ emitted = <<>>
  /\ agentSessions = 0

ClientNext ==
  \/ \E op \in ClientOps, sid \in SessionIds \cup {"-"} : CallStart(op, sid)
  \/ \E i \in 1..MaxCalls, ok \in BOOLEAN : InitializeResponds(i, ok)
  \/ \E i \in 1..MaxCalls : InitializeRespondsMalformed(i)
  \/ \E c \in 1..MaxCalls, ok \in BOOLEAN : RpcSettles(c, ok)
  \/ \E sid \in SessionIds : SessionUpdate(sid)
  \/ \E p \in 1..MaxProcs : AgentExit(p)

\* ================================================================
\* AcpClientImpl: readTextFile, writeTextFile, createTerminal
\* ================================================================
\* Paths are sequences of segments; a request names a path in absolute
\* form, relative form or as a file: URI.
WorkspaceConfigs == {<<>>, <<<<"ws">>>>, <<<<"ws">>, <<"lib">>>>}

RequestPaths ==
  { [form |-> "rel", segs |-> <<"f">>],
    [form |-> "rel", segs |-> <<"..", "out", "f">>],
    [form |-> "rel", segs |-> <<"..x">>],
    [form |-> "rel", segs |-> <<>>],
    [form |-> "abs", segs |-> <<"lib", "f">>],
    [form |-> "abs", segs |-> <<"ws">>],
    [form |-> "uri", segs |-> <<"out", "f">>] }

\* coerceToFsPath(value): a file: URI becomes its fsPath
coerceToFsPath(p) ==
  IF p.form = "uri" THEN [form |-> "abs", segs |-> p.segs] ELSE p

\* path.resolve on an absolute path: "." and ".." are folded away
RECURSIVE pathResolve(_, _)
pathResolve(done, segs) ==
  IF segs = <<>> THEN done
  ELSE LET h == Head(segs) IN
       pathResolve(IF h = "." THEN done
                   ELSE IF h = ".."
                        THEN (IF done = <<>> THEN done
                              ELSE SubSeq(done, 1, Len(done) - 1))
                        ELSE Append(done, h),
                   Tail(segs))

\* path.relative(from, to) for two resolved paths
RECURSIVE commonPrefixLen(_, _)
commonPrefixLen(a, b) ==
  IF a = <<>> \/ b = <<>> \/ Head(a) # Head(b) THEN 0
  ELSE 1 + commonPrefixLen(Tail(a), Tail(b))

pathRelative(from, to) ==
  LET k == commonPrefixLen(from, to) IN
  [i \in 1..(Len(from) - k) |-> ".."] \o SubSeq(to, k + 1, Len(to))

\* the segments whose text starts with ".."
DotDotPrefixed == {"..", "..x"}

\* an isWithin that accepts every target
isWithinAlways(root, target) == TRUE

\* isWithin(root, target)
isWithin(root, target) ==
  LET relative == pathRelative(pathResolve(<<>>, root), pathResolve(<<>>, target)) IN
  IF relative = <<>> THEN TRUE ELSE relative[1] \notin DotDotPrefixed

NoPath == [ok |-> FALSE, path |-> <<>>]

\* the empty string, which `params.cwd ? ... : ...` takes as absent
EmptyPath == [form |-> "rel", segs |-> <<>>]

\* getWorkspaceCwd(): the first workspace folder
getWorkspaceCwd(roots) == roots[1]

\* resolveWorkspacePath(targetPath): the resolved path, or undefined
resolveWorkspacePath(roots, targetPath) ==
  LET normalized == coerceToFsPath(targetPath) IN
  IF Len(roots) = 0 THEN NoPath
  ELSE LET absolute == IF normalized.form = "abs" THEN normalized.segs
                       ELSE roots[1] \o normalized.segs
           resolved == pathResolve(<<>>, absolute)
       IN IF \E i \in 1..Len(roots) : isWithin(roots[i], resolved)
          THEN [ok |-> TRUE, path |-> resolved]
          ELSE NoPath

\* path.dirname of a resolved path
dirname(path) == IF path = <<>> THEN path ELSE SubSeq(path, 1, Len(path) - 1)

\* ensureWorkspaceOpen()
workspaceOpen == Len(workspaceFolders) > 0

\* the agent can send a request only over a live connection
AgentConnected == connection # 0 /\ procs[connection].alive

ToolState == [allowedWriteSessions |-> allowedWriteSessions,
              allowedTerminalSessions |-> allowedTerminalSessions,
              toolOps |-> toolOps, terminals |-> terminals, fsLog |-> fsLog]

SetToolState(st) ==
  /\ allowedWriteSessions' = st.allowedWriteSessions
  /\ allowedTerminalSessions' = st.allowedTerminalSessions
  /\ toolOps' = st.toolOps
  /\ terminals' = st.terminals
  /\ fsLog' = st.fsLog

\* one allowed set shared by writes and terminals
allowedSetAnyKind(st, kind) ==
  st.allowedWriteSessions \cup st.allowedTerminalSessions

\* the set ensureToolPermission consults for this kind of operation
allowedSet(st, kind) ==
  IF kind = "write" THEN st.allowedWriteSessions ELSE st.allowedTerminalSessions

\* an outcome check that lets every selected option through
permissionAllowsSelected(answer) == answer # "cancelled"

\* ensureToolPermission, after the response: whether it returns (TRUE) or
\* throws "Permission denied." (FALSE)
permissionAllows(answer) == answer \in {"allow_always", "allow_once"}

\* a grant recorded for allow once too
grantsAlwaysOrOnce(answer) == answer \in {"allow_always", "allow_once"}

\* ensureToolPermission: the answer that adds the session to the allowed set
grantsAlways(answer) == answer = "allow_always"

\* writeTextFile / createTerminal after `await this.ensureToolPermission`:
\* the path is resolved, then the file is written or the process spawned
\* and the terminal registered
performToolOp(st, roots, t) ==
  LET op == st.toolOps[t] IN
  IF op.kind = "write"
  THEN LET resolved == resolveWorkspacePath(roots, op.path) IN
       IF resolved.ok
       THEN [st EXCEPT !.toolOps[t].pc = "done",
                       !.fsLog = @ \cup
                          {[op |-> t, effect |-> "createDirectory",
                            path |-> dirname(resolved.path)],
                           [op |-> t, effect |-> "writeFile", path |-> resolved.path]}]
       ELSE [st EXCEPT !.toolOps[t].pc = "rejected"]
  ELSE LET resolved == IF op.path # EmptyPath
                       THEN resolveWorkspacePath(roots, op.path)
                       ELSE [ok |-> TRUE, path |-> getWorkspaceCwd(roots)] IN
       IF resolved.ok
       THEN [st EXCEPT !.toolOps[t].pc = "done",
                       !.terminals = @ \cup {Cardinality(st.terminals) + 1},
                       !.fsLog = @ \cup
                          {[op |-> t, effect |-> "spawn", path |-> resolved.path]}]
       ELSE [st EXCEPT !.toolOps[t].pc = "rejected"]

NewToolOp(kind, sessionId, path) ==
  [kind |-> kind, sessionId |-> sessionId, path |-> path,
   pc |-> "rejected", checked |-> FALSE, prompted |-> FALSE, answer |-> ""]

\* readTextFile(params): workspace open, path resolved, file read
ReadTextFile(path) ==
  /\ AgentConnected
  /\ Len(toolOps) < MaxToolOps
  /\ LET t == Len(toolOps) + 1
         resolved == resolveWorkspacePath(workspaceFolders, path)
         op == NewToolOp("read", "-", path)
     IN IF workspaceOpen /\ resolved.ok
        THEN /\ toolOps' = Append(toolOps, [op EXCEPT !.pc = "done", !.checked = TRUE])
             /\ fsLog' = fsLog \cup
                  {[op |-> t, effect |-> "readFile", path |-> resolved.path]}
        ELSE /\ toolOps' = Append(toolOps, [op EXCEPT !.checked = workspaceOpen])
             /\ UNCHANGED fsLog
  /\ UNCHANGED <<workspaceFolders, isTrusted, allowedWriteSessions,
                 allowedTerminalSessions, terminals>>
  /\ UNCHANGED <<permVars, clientVars, sessVars, pureVars>>

\* writeTextFile(params) / createTerminal(params) up to the permission
\* prompt: workspace open, workspace trusted, then ensureToolPermission,
\* which returns at once when the session is in the allowed set
ToolRequest(kind, sessionId, path) ==
  /\ AgentConnected
  /\ Len(toolOps) < MaxToolOps
  /\ LET t == Len(toolOps) + 1
         op == NewToolOp(kind, sessionId, path)
         st0 == [ToolState EXCEPT !.toolOps = Append(@, op)]
     IN IF ~(workspaceOpen /\ isTrusted)
        THEN SetToolState(st0)
        ELSE IF sessionId \in allowedSet(ToolState, kind)
        THEN SetToolState(performToolOp(
                [st0 EXCEPT !.toolOps[t].checked = TRUE], workspaceFolders, t))
        ELSE SetToolState([st0 EXCEPT !.toolOps[t].checked = TRUE,
                                      !.toolOps[t].prompted = TRUE,
                                      !.toolOps[t].pc = "awaitPermission"])
  /\ UNCHANGED <<workspaceFolders, isTrusted>>
  /\ UNCHANGED <<permVars, clientVars, sessVars, pureVars>>

PermissionAnswers == {"allow_once", "allow_always", "deny", "cancelled"}

\* permissionHandler.requestPermission returns: ensureToolPermission throws
\* or returns (recording an allow-always grant), and the operation goes on
PermissionAnswered(t, answer) ==
  /\ t \in 1..Len(toolOps)
  /\ toolOps[t].pc = "awaitPermission"
  /\ LET op == toolOps[t]
         st0 == [ToolState EXCEPT !.toolOps[t].answer = answer]
         st1 == IF permissionAllows(answer) /\ grantsAlways(answer)
                THEN IF op.kind = "write"
                     THEN [st0 EXCEPT !.allowedWriteSessions = @ \cup {op.sessionId}]
                     ELSE [st0 EXCEPT !.allowedTerminalSessions = @ \cup {op.sessionId}]
                ELSE st0
     IN IF permissionAllows(answer)
        THEN SetToolState(performToolOp(st1, workspaceFolders, t))
        ELSE SetToolState([st1 EXCEPT !.toolOps[t].pc = "rejected"])
  /\ UNCHANGED <<workspaceFolders, isTrusted>>
  /\ UNCHANGED <<permVars, clientVars, sessVars, pureVars>>

\* a folder or multi-root workspace is opened, trusted or not
OpenWorkspace(config, trusted) ==
  /\ workspaceFolders = <<>>
  /\ config # <<>>
  /\ workspaceFolders' = config
  /\ isTrusted' = trusted
  /\ UNCHANGED <<allowedWriteSessions, allowedTerminalSessions, toolOps,
                 terminals, fsLog>>
  /\ UNCHANGED <<permVars, clientVars, sessVars, pureVars>>

ToolInit ==
  /\ workspaceFolders = <<>>
  /\ isTrusted = FALSE
  /\ allowedWriteSessions = {}
  /\ allowedTerminalSessions = {}
  /\ toolOps = <<>>
  /\ terminals = {}
  /\ fsLog = {}

ToolNext ==
  \/ \E config \in WorkspaceConfigs, trusted \in BOOLEAN :
        OpenWorkspace(config, trusted)
  \/ CallStart("prompt", "-")
  \/ \E i \in 1..MaxCalls, ok \in BOOLEAN : InitializeResponds(i, ok)
  \/ \E path \in RequestPaths : ReadTextFile(path)
  \/ \E kind \in {"write", "terminal"}, sessionId \in SessionIds,
        path \in RequestPaths : ToolRequest(kind, sessionId, path)
  \/ \E t \in 1..MaxToolOps, answer \in PermissionAnswers :
        PermissionAnswered(t, answer)

\* ================================================================
\* Diff engine: toInlineDiff, buildDiffStats
\* ================================================================
\* A text is a sequence of characters; "LF" and "CR" are the line feed and
\* the carriage return.
Chars == {"a", "b", "LF", "CR"}

ExampleTexts ==
  { <<"a", "LF", "b", "LF">>, <<"a", "LF", "c", "LF", "b", "LF">>,
    <<"a", "LF", "b", "LF", "a">>, <<"b", "LF", "a", "LF", "b">>,
    <<"a", "CR", "LF", "b", "CR", "LF", "c">>,
    <<"c", "LF", "b", "CR", "a", "LF", "c">>,
    <<"a", "LF", "b", "LF", "c", "LF", "a", "LF", "b", "LF", "c">>,
    <<"c", "LF", "b", "LF", "a", "LF", "c", "LF", "b", "LF", "a">> }

Texts == SeqsUpTo(Chars, MaxTextLen) \cup ExampleTexts

NoDiff == [oldText |-> <<"-">>, newText |-> <<"-">>]

\* results are kept as sequences of at most one value
NoResult == <<>>

\* text.replace(/\r\n?/g, "\n")
RECURSIVE normalize(_)
normalize(text) ==
  IF text = <<>> THEN <<>>
  ELSE IF Head(text) = "CR"
       THEN IF Len(text) >= 2 /\ text[2] = "LF"
            THEN <<"LF">> \o normalize(SubSeq(text, 3, Len(text)))
            ELSE <<"LF">> \o normalize(Tail(text))
       ELSE <<Head(text)>> \o normalize(Tail(text))

\* a split that keeps no empty last line
RECURSIVE splitNoEmptyLast(_, _)
splitNoEmptyLast(text, current) ==
  IF text = <<>> THEN (IF current = <<>> THEN <<>> ELSE <<current>>)
  ELSE IF Head(text) = "LF"
       THEN <<current>> \o splitNoEmptyLast(Tail(text), <<>>)
       ELSE splitNoEmptyLast(Tail(text), Append(current, Head(text)))

\* text.split("\n"), current being the line collected so far
RECURSIVE split(_, _)
split(text, current) ==
  IF text = <<>> THEN <<current>>
  ELSE IF Head(text) = "LF"
       THEN <<current>> \o split(Tail(text), <<>>)
       ELSE split(Tail(text), Append(current, Head(text)))

Max(a, b) == IF a >= b THEN a ELSE b

\* the inner loop: cells 1..n+1 of the row of oldLine, filled from the
\* right; below is the row of the next old line, acc the cells j+1..n+1
RECURSIVE lcsRow(_, _, _, _, _)
lcsRow(oldLine, newLines, below, j, acc) ==
  IF j = 0 THEN acc
  ELSE LET cell == IF oldLine = newLines[j]
                   THEN below[j + 1] + 1
                   ELSE Max(below[j], acc[1])
       IN lcsRow(oldLine, newLines, below, j - 1, <<cell>> \o acc)

\* the outer loop: rows 1..m+1, filled from the bottom; acc the rows i+1..m+1
RECURSIVE lcsRows(_, _, _, _)
lcsRows(oldLines, newLines, i, acc) ==
  IF i = 0 THEN acc
  ELSE lcsRows(oldLines, newLines, i - 1,
               <<lcsRow(oldLines[i], newLines, acc[1], Len(newLines), <<0>>)>>
                  \o acc)

\* the table lcs[i][j], indices from 1; row m+1 and column n+1 are zero
lcsTable(oldLines, newLines) ==
  lcsRows(oldLines, newLines, Len(oldLines),
          << [j \in 1..(Len(newLines) + 1) |-> 0] >>)

DiffOp(type, line) == [type |-> type, line |-> line]

\* a tie between the two successor scores decided for the insertion
prefersAdd(below, right) == below > right

\* lcs[i + 1][j] >= lcs[i][j + 1]
prefersRemove(below, right) == below >= right

\* the walk without the two loops that drain what is left of either text
RECURSIVE walkMainLoopOnly(_, _, _, _, _)
walkMainLoopOnly(oldLines, newLines, lcs, i, j) ==
  IF i <= Len(oldLines) /\ j <= Len(newLines)
  THEN IF oldLines[i] = newLines[j]
       THEN <<DiffOp("common", oldLines[i])>>
               \o walkMainLoopOnly(oldLines, newLines, lcs, i + 1, j + 1)
       ELSE IF prefersRemove(lcs[i + 1][j], lcs[i][j + 1])
       THEN <<DiffOp("remove", oldLines[i])>>
               \o walkMainLoopOnly(oldLines, newLines, lcs, i + 1, j)
       ELSE <<DiffOp("add", newLines[j])>>
               \o walkMainLoopOnly(oldLines, newLines, lcs, i, j + 1)
  ELSE <<>>

\* the three while loops of toInlineDiff that build the script
RECURSIVE walk(_, _, _, _, _)
walk(oldLines, newLines, lcs, i, j) ==
  IF i <= Len(oldLines) /\ j <= Len(newLines)
  THEN IF oldLines[i] = newLines[j]
       THEN <<DiffOp("common", oldLines[i])>>
               \o walk(oldLines, newLines, lcs, i + 1, j + 1)
       ELSE IF prefersRemove(lcs[i + 1][j], lcs[i][j + 1])
       THEN <<DiffOp("remove", oldLines[i])>>
               \o walk(oldLines, newLines, lcs, i + 1, j)
       ELSE <<DiffOp("add", newLines[j])>>
               \o walk(oldLines, newLines, lcs, i, j + 1)
  ELSE IF i <= Len(oldLines)
  THEN <<DiffOp("remove", oldLines[i])>>
          \o walk(oldLines, newLines, lcs, i + 1, j)
  ELSE IF j <= Len(newLines)
  THEN <<DiffOp("add", newLines[j])>>
          \o walk(oldLines, newLines, lcs, i, j + 1)
  ELSE <<>>

\* the empty string toInlineDiff returns when there is nothing to show
EmptyBody == [script |-> <<>>, diffLines |-> <<>>]

prefixOf(type) ==
  IF type = "add" THEN "+" ELSE IF type = "remove" THEN "-" ELSE " "

toInlineDiff(oldText, newText) ==
  LET original == normalize(oldText)
      updated == normalize(newText)
  IN IF original = updated THEN EmptyBody
     ELSE
       LET oldLines == split(original, <<>>)
           newLines == split(updated, <<>>)
           m == Len(oldLines)
           n == Len(newLines)
           script == walk(oldLines, newLines, lcsTable(oldLines, newLines), 1, 1)
           hasChanges == \E k \in 1..Len(script) : script[k].type # "common"
           oldStart == IF m > 0 THEN 1 ELSE 0
           newStart == IF n > 0 THEN 1 ELSE 0
       IN IF ~hasChanges THEN EmptyBody
          ELSE [script |-> script,
                diffLines |->
                  << <<"--- original">>, <<"+++ modified">>,
                     <<"@@", oldStart, m, newStart, n>> >>
                  \o [k \in 1..Len(script) |->
                        <<prefixOf(script[k].type), script[k].line>>]]

\* the counting walk of buildDiffStats, from position (i, j)
RECURSIVE countWalk(_, _, _, _, _)
countWalk(oldLines, newLines, lcs, i, j) ==
  IF i <= Len(oldLines) /\ j <= Len(newLines)
  THEN IF oldLines[i] = newLines[j]
       THEN countWalk(oldLines, newLines, lcs, i + 1, j + 1)
       ELSE IF prefersRemove(lcs[i + 1][j], lcs[i][j + 1])
       THEN LET rest == countWalk(oldLines, newLines, lcs, i + 1, j)
            IN [rest EXCEPT !.removed = @ + 1]
       ELSE LET rest == countWalk(oldLines, newLines, lcs, i, j + 1)
            IN [rest EXCEPT !.added = @ + 1]
  ELSE [added |-> Len(newLines) - (j - 1), removed |-> Len(oldLines) - (i - 1)]

buildDiffStats(oldText, newText) ==
  LET original == normalize(oldText)
      updated == normalize(newText)
  IN IF original = updated THEN [added |-> 0, removed |-> 0]
     ELSE LET oldLines == split(original, <<>>)
              newLines == split(updated, <<>>)
          IN countWalk(oldLines, newLines, lcsTable(oldLines, newLines), 1, 1)

\* a tool call arrives with a diff content block {oldText, newText}
ReceiveDiffContent(oldText, newText) ==
  /\ diffContent = NoDiff
  /\ diffContent' = [oldText |-> oldText, newText |-> newText]
  /\ UNCHANGED <<diffBody, diffStats>>
  /\ UNCHANGED <<permVars, clientVars, sessVars, toolVars, turnVars, providerVars, tracerVars, extVars>>

\* buildDiffMarkdown renders the block
ToInlineDiff ==
  /\ diffContent # NoDiff
  /\ diffBody = NoResult
  /\ diffBody' = <<toInlineDiff(diffContent.oldText, diffContent.newText)>>
  /\ UNCHANGED <<diffContent, diffStats>>
  /\ UNCHANGED <<permVars, clientVars, sessVars, toolVars, turnVars, providerVars, tracerVars, extVars>>

\* the turn builder counts the lines of the block
BuildDiffStats ==
  /\ diffContent # NoDiff
  /\ diffStats = NoResult
  /\ diffStats' = <<buildDiffStats(diffContent.oldText, diffContent.newText)>>
  /\ UNCHANGED <<diffContent, diffBody>>
  /\ UNCHANGED <<permVars, clientVars, sessVars, toolVars, turnVars, providerVars, tracerVars, extVars>>

DiffInit ==
  /\ diffContent = NoDiff
  /\ diffBody = NoResult
  /\ diffStats = NoResult

DiffNext ==
  \/ \E oldText \in Texts, newText \in Texts : ReceiveDiffContent(oldText, newText)
  \/ ToInlineDiff
  \/ BuildDiffStats

\* ================================================================
\* TurnBuilder
\* ================================================================
\* A message text is a sequence of tokens; " " is white space and "User:"
\* the prefix some agents put before the replayed user prompt.
MessageTexts ==
  { <<"hi">>, <<"hello">>, <<"bye">>, <<>>, <<" ">>, <<"User:", " ", "hi">> }

\* content blocks: text blocks and one block that is not text
Contents ==
  { [type |-> "text", text |-> t, entries |-> <<>>] : t \in MessageTexts }
     \cup { [type |-> "image", text |-> <<>>, entries |-> <<>>] }

\* update.entries of a plan notification
PlanEntry(content, entryStatus) == [content |-> content, status |-> entryStatus]

Plans ==
  { <<>>,
    <<PlanEntry("read", "pending"), PlanEntry("edit", "pending")>>,
    <<PlanEntry("read", "completed"), PlanEntry("edit", "pending")>> }

\* what a notification carries besides its kind: update.content, or
\* update.entries for a plan
NoContent == [type |-> "none", text |-> <<>>, entries |-> <<>>]

PlanContents == { [NoContent EXCEPT !.entries = plan] : plan \in Plans }

ChunkKinds ==
  { "user_message_chunk", "agent_message_chunk", "agent_thought_chunk" }

UpdateKinds ==
  ChunkKinds \cup { "tool_call", "plan", "current_mode_update" }

ContentsOf(kind) ==
  IF kind \in ChunkKinds THEN Contents
  ELSE IF kind = "plan" THEN PlanContents
  ELSE {NoContent}

RECURSIVE trimStart(_)
trimStart(text) ==
  IF text # <<>> /\ Head(text) = " " THEN trimStart(Tail(text)) ELSE text

RECURSIVE trimEnd(_)
trimEnd(text) ==
  IF text # <<>> /\ text[Len(text)] = " "
  THEN trimEnd(SubSeq(text, 1, Len(text) - 1))
  ELSE text

trim(text) == trimEnd(trimStart(text))

\* chunks.join("")
RECURSIVE joinChunks(_)
joinChunks(chunks) ==
  IF chunks = <<>> THEN <<>> ELSE Head(chunks) \o joinChunks(Tail(chunks))

\* getContentText: the text of a text block, NoText (undefined) otherwise
NoText == <<"undefined">>

getContentText(content) ==
  IF content.type = "text" THEN content.text ELSE NoText

TbState ==
  [currentUserMessage |-> currentUserMessage,
   currentAgentParts |-> currentAgentParts,
   agentMessageChunks |-> agentMessageChunks,
   turns |-> turns]

SetTbState(tb) ==
  /\ currentUserMessage' = tb.currentUserMessage
  /\ currentAgentParts' = tb.currentAgentParts
  /\ agentMessageChunks' = tb.agentMessageChunks
  /\ turns' = tb.turns

ChatRequestTurn(prompt) == [role |-> "user", prompt |-> prompt, parts |-> <<>>]

ChatResponseTurn(parts) == [role |-> "agent", prompt |-> <<>>, parts |-> parts]

Part(type, text) == [type |-> type, text |-> text]

\* the pending user message thrown away instead of becoming a turn
dropPendingUserMessage(tb) == [tb EXCEPT !.currentUserMessage = <<>>]

flushPendingUserMessage(tb) ==
  IF trim(tb.currentUserMessage) = <<>> THEN tb
  ELSE [tb EXCEPT !.turns = Append(@, ChatRequestTurn(tb.currentUserMessage)),
                  !.currentUserMessage = <<>>]

flushAgentMessageChunksToMarkdown(tb) ==
  IF Len(tb.agentMessageChunks) = 0 THEN tb
  ELSE [tb EXCEPT !.currentAgentParts =
                     Append(@, Part("markdown", joinChunks(tb.agentMessageChunks))),
                  !.agentMessageChunks = <<>>]

flushPendingAgentMessage(tb) ==
  LET flushed == flushAgentMessageChunksToMarkdown(tb)
  IN IF Len(flushed.currentAgentParts) = 0 THEN flushed
     ELSE [flushed EXCEPT !.turns = Append(@, ChatResponseTurn(flushed.currentAgentParts)),
                          !.currentAgentParts = <<>>]

captureUserMessageChunk(tb, content) ==
  LET text == getContentText(content)
  IN IF text = NoText \/ text = <<>> THEN tb
     ELSE LET normalized == IF Head(text) = "User:"
                            THEN trimStart(Tail(text))
                            ELSE text
          IN [tb EXCEPT !.currentUserMessage = @ \o normalized]

captureAgentMessageChunk(tb, content) ==
  LET text == getContentText(content)
  IN IF text = NoText \/ text = <<>> THEN tb
     ELSE [tb EXCEPT !.agentMessageChunks = Append(@, text)]

\* the markdown of one plan: the heading, then a checkbox and the content
\* of every entry
RECURSIVE planMarkdown(_)
planMarkdown(entries) ==
  IF entries = <<>> THEN <<>>
  ELSE << (IF Head(entries).status = "completed" THEN "[x]" ELSE "[ ]"),
          Head(entries).content >> \o planMarkdown(Tail(entries))

isPlanPart(part) ==
  part.type = "markdown" /\ part.text # <<>> /\ Head(part.text) = "## Plan"

appendPlanEntries(tb, entries) ==
  IF Len(entries) = 0 THEN tb
  ELSE [tb EXCEPT !.currentAgentParts =
                     Append(@, Part("markdown",
                                    <<"## Plan">> \o planMarkdown(entries)))]

processNotification(tb, kind, content) ==
  CASE kind = "user_message_chunk" ->
         captureUserMessageChunk(flushPendingAgentMessage(tb), content)
    [] kind = "agent_message_chunk" ->
         captureAgentMessageChunk(flushPendingUserMessage(tb), content)
    [] kind = "agent_thought_chunk" ->
         LET flushed == flushAgentMessageChunksToMarkdown(flushPendingUserMessage(tb))
             thought == getContentText(content)
         IN IF thought # NoText /\ trim(thought) # <<>>
            THEN [flushed EXCEPT !.currentAgentParts =
                                    Append(@, Part("progress", trim(thought)))]
            ELSE flushed
    [] kind = "tool_call" ->
         LET flushed == flushAgentMessageChunksToMarkdown(flushPendingUserMessage(tb))
         IN [flushed EXCEPT !.currentAgentParts = Append(@, Part("tool", <<"Tool">>))]
    [] kind = "tool_call_update" ->
         flushAgentMessageChunksToMarkdown(flushPendingUserMessage(tb))
    [] kind = "plan" ->
         appendPlanEntries(
           flushAgentMessageChunksToMarkdown(flushPendingUserMessage(tb)),
           content.entries)
    [] OTHER -> tb

Notification(kind, content) == [sessionUpdate |-> kind, content |-> content]

ProcessNotification(kind, content) ==
  /\ Len(fed) < MaxFed
  /\ fed' = Append(fed, Notification(kind, content))
  /\ SetTbState(processNotification(TbState, kind, content))
  /\ UNCHANGED turnsRead
  /\ UNCHANGED <<permVars, clientVars, sessVars, toolVars, diffVars, providerVars, tracerVars, extVars>>

GetTurns ==
  LET tb == flushPendingAgentMessage(flushPendingUserMessage(TbState))
  IN /\ SetTbState(tb)
     /\ turnsRead' = <<[at |-> Len(fed), turns |-> tb.turns]>>
     /\ UNCHANGED fed
     /\ UNCHANGED <<permVars, clientVars, sessVars, toolVars, diffVars, providerVars, tracerVars, extVars>>

TurnInit ==
  /\ currentUserMessage = <<>>
  /\ currentAgentParts = <<>>
  /\ agentMessageChunks = <<>>
  /\ turns = <<>>
  /\ fed = <<>>
  /\ turnsRead = <<>>

TurnNext ==
  \/ \E kind \in UpdateKinds :
        \E content \in ContentsOf(kind) : ProcessNotification(kind, content)
  \/ GetTurns

\* ================================================================
\* AcpChatSessionContentProvider.provideHandleOptionsChange
\* ================================================================
\* the client call an update leads to, "" when it leads to none
optionCall(optionId, value) ==
  IF value = "" THEN ""
  ELSE IF optionId = "mode" THEN "changeMode"
  ELSE IF optionId = "model" THEN "changeModel"
  ELSE ""

\* provideHandleOptionsChange(resource, [update], token): without a current
\* session it logs and returns; otherwise it calls changeMode or changeModel
\* for the update and returns, the promise of the call left alone.
ProvideHandleOptionsChange(current, optionId, value) ==
  /\ Len(optionChanges) < MaxOptionChanges
  /\ IF current /\ optionCall(optionId, value) # ""
     THEN /\ StartCall(optionCall(optionId, value), "-")
          /\ optionChanges' = Append(optionChanges,
                [call |-> Len(calls) + 1, pc |-> "returned"])
     ELSE /\ optionChanges' = Append(optionChanges, [call |-> 0, pc |-> "returned"])
          /\ UNCHANGED clientVars
  /\ UNCHANGED <<permVars, sessVars, toolVars, diffVars, turnVars, tracerVars, extVars>>

ProviderInit == optionChanges = <<>>

ProviderNext ==
  \/ \E current \in BOOLEAN, optionId \in OptionIds, value \in OptionValues \cup {""} :
        ProvideHandleOptionsChange(current, optionId, value)
  \/ \E i \in 1..MaxCalls, ok \in BOOLEAN : InitializeResponds(i, ok)
  \/ \E c \in 1..MaxCalls, ok \in BOOLEAN : RpcSettles(c, ok)
  \/ \E p \in 1..MaxProcs : AgentExit(p)

\* ================================================================
\* Tracer
\* ================================================================
\* Objects live in a heap (a sequence, the address being the index) so that
\* a copy can share objects with its original.  Every object has the same
\* fields; Absent marks a string property the object does not have and 0 a
\* reference it does not have.
Absent == "<absent>"

REDACTED == "<redacted>"

EmptyObject ==
  [sessionUpdate |-> Absent, type |-> Absent, text |-> Absent,
   newText |-> Absent, oldText |-> Absent, output |-> Absent,
   formatted_output |-> Absent, aggregated_output |-> Absent,
   command |-> <<>>,
   update |-> 0, content |-> 0, value |-> 0, rawOutput |-> 0, rawInput |-> 0]

\* the shapes of notification the agent sends: the kind of update, the one
\* content item it carries, its rawOutput and its rawInput
NotificationShapes ==
  [ sessionUpdate : {"tool_call", "tool_call_update", "agent_message_chunk"},
    item : {"none", "text", "emptyText", "image", "diff", "diffNewOnly"},
    rawOutput : {"none", "command", "outputs"},
    rawInput : {"none", "command"} ]

\* the object graph of a notification of the given shape, appended to the
\* heap h; the notification object is the last one
BuildNotification(h, shape) ==
  LET h1 == IF shape.item = "text"
            THEN Append(h, [EmptyObject EXCEPT !.type = "text", !.text = "secret"])
            ELSE IF shape.item = "emptyText"
            THEN Append(h, [EmptyObject EXCEPT !.type = "text", !.text = ""])
            ELSE IF shape.item = "image"
            THEN Append(h, [EmptyObject EXCEPT !.type = "image"])
            ELSE h
      h2 == IF shape.item \in {"text", "emptyText", "image"}
            THEN Append(h1, [EmptyObject EXCEPT !.type = "content", !.value = Len(h1)])
            ELSE IF shape.item = "diff"
            THEN Append(h1, [EmptyObject EXCEPT !.type = "diff",
                                               !.newText = "new", !.oldText = "old"])
            ELSE IF shape.item = "diffNewOnly"
            THEN Append(h1, [EmptyObject EXCEPT !.type = "diff", !.newText = "new"])
            ELSE h1
      item == IF shape.item = "none" THEN 0 ELSE Len(h2)
      h3 == IF shape.rawOutput = "command"
            THEN Append(h2, [EmptyObject EXCEPT !.command = <<"bash", "-c", "ls">>])
            ELSE IF shape.rawOutput = "outputs"
            THEN Append(h2, [EmptyObject EXCEPT !.output = "out",
                                               !.formatted_output = "",
                                               !.aggregated_output = "all"])
            ELSE h2
      rawOutput == IF shape.rawOutput = "none" THEN 0 ELSE Len(h3)
      h4 == IF shape.rawInput = "command"
            THEN Append(h3, [EmptyObject EXCEPT !.command = <<"cat", "f">>])
            ELSE h3
      rawInput == IF shape.rawInput = "none" THEN 0 ELSE Len(h4)
      h5 == Append(h4, [EmptyObject EXCEPT !.sessionUpdate = shape.sessionUpdate,
                                          !.content = item,
                                          !.rawOutput = rawOutput,
                                          !.rawInput = rawInput])
  IN Append(h5, [EmptyObject EXCEPT !.update = Len(h5)])

\* the value of the object at address a with everything it refers to, as
\* deepEqual and JSON.stringify see it
RECURSIVE Deref(_, _)
Deref(h, a) ==
  IF a = 0 THEN <<>>
  ELSE << [h[a] EXCEPT !.update = Deref(h, h[a].update),
                       !.content = Deref(h, h[a].content),
                       !.value = Deref(h, h[a].value),
                       !.rawOutput = Deref(h, h[a].rawOutput),
                       !.rawInput = Deref(h, h[a].rawInput)] >>

\* a copy of the notification and of its update only: what they refer to is
\* shared with the original
shallowClone(h, a) ==
  IF a = 0 THEN [heap |-> h, addr |-> 0]
  ELSE LET h1 == IF h[a].update = 0 THEN h ELSE Append(h, h[h[a].update])
           update == IF h[a].update = 0 THEN 0 ELSE Len(h1)
       IN [heap |-> Append(h1, [h[a] EXCEPT !.update = update]),
           addr |-> Len(h1) + 1]

\* structuredClone(value): a copy of the object at a and of every object it
\* refers to
RECURSIVE structuredClone(_, _)
structuredClone(h, a) ==
  IF a = 0 THEN [heap |-> h, addr |-> 0]
  ELSE LET c1 == structuredClone(h, h[a].update)
           c2 == structuredClone(c1.heap, h[a].content)
           c3 == structuredClone(c2.heap, h[a].value)
           c4 == structuredClone(c3.heap, h[a].rawOutput)
           c5 == structuredClone(c4.heap, h[a].rawInput)
       IN [heap |-> Append(c5.heap,
                      [h[a] EXCEPT !.update = c1.addr, !.content = c2.addr,
                                   !.value = c3.addr, !.rawOutput = c4.addr,
                                   !.rawInput = c5.addr]),
           addr |-> Len(c5.heap) + 1]

\* `x ? REDACTED : x` and `if (x) x = REDACTED` for a string property
redactTruthy(str) == IF str # Absent /\ str # "" THEN REDACTED ELSE str

\* `typeof x === "string"` followed by x = REDACTED
redactString(str) == IF str # Absent THEN REDACTED ELSE str

\* the same loop started at index 2: the first argument stays
redactCommandFromThird(command) ==
  [i \in 1..Len(command) |-> IF i <= 2 THEN command[i] ELSE REDACTED]

\* command[i] = REDACTED for every i from 1 (the second element) on
redactCommand(command) ==
  [i \in 1..Len(command) |-> IF i = 1 THEN command[i] ELSE REDACTED]

\* the assignments redactLargeContent makes to the update at address u
redactUpdate(h, u) ==
  IF h[u].sessionUpdate \notin {"tool_call", "tool_call_update"} THEN h
  ELSE
    LET item == h[u].content
        h1 == IF item = 0 THEN h
              ELSE IF h[item].type = "content"
              THEN (IF h[h[item].value].type = "text"
                    THEN [h EXCEPT ![h[item].value].text = redactTruthy(@)]
                    ELSE h)
              ELSE IF h[item].type = "diff"
              THEN [h EXCEPT ![item].newText = redactTruthy(@),
                             ![item].oldText = redactTruthy(@)]
              ELSE h
        ro == h[u].rawOutput
        h2 == IF ro = 0 THEN h1
              ELSE [h1 EXCEPT ![ro].command = redactCommand(@),
                              ![ro].formatted_output = redactString(@),
                              ![ro].output = redactString(@),
                              ![ro].aggregated_output = redactString(@)]
        ri == h[u].rawInput
    IN IF ri = 0 THEN h2
       ELSE [h2 EXCEPT ![ri].command = redactCommand(@)]

\* redactLargeContent(notification): the heap after it and the address of
\* the copy it returns
redactLargeContent(h, notification) ==
  LET copy == structuredClone(h, notification)
  IN [heap |-> redactUpdate(copy.heap, copy.heap[copy.addr].update),
      addr |-> copy.addr]

LogLevels == {"Trace", "Info"}

\* the client receives a notification from the agent
ReceiveNotification(shape) ==
  /\ traceNotification = 0
  /\ traceHeap' = BuildNotification(traceHeap, shape)
  /\ traceNotification' = Len(traceHeap')
  /\ UNCHANGED <<traceCalls, traceLog>>
  /\ UNCHANGED <<permVars, clientVars, sessVars, toolVars, diffVars, turnVars,
                 providerVars, extVars>>

\* Tracer.trace(notification) with the channel at the given log level
Trace(logLevel) ==
  /\ traceNotification # 0
  /\ traceCalls < MaxTraces
  /\ traceCalls' = traceCalls + 1
  /\ IF logLevel = "Trace"
     THEN LET redacted == redactLargeContent(traceHeap, traceNotification)
          IN /\ traceHeap' = redacted.heap
             /\ traceLog' = Append(traceLog, Deref(redacted.heap, redacted.addr))
     ELSE UNCHANGED <<traceHeap, traceLog>>
  /\ UNCHANGED traceNotification
  /\ UNCHANGED <<permVars, clientVars, sessVars, toolVars, diffVars, turnVars,
                 providerVars, extVars>>

TracerInit ==
  /\ traceHeap = <<>>
  /\ traceNotification = 0
  /\ traceCalls = 0
  /\ traceLog = <<>>

TracerNext ==
  \/ \E shape \in NotificationShapes : ReceiveNotification(shape)
  \/ \E logLevel \in LogLevels : Trace(logLevel)

\* ================================================================
\* TurnBuilder: appendToolCall / appendToolUpdate
\* ================================================================
ToolCallIds == {"t1", "t2"}

\* a tool_call or tool_call_update as far as the builder reads it: the
\* status ("" when the update has none), rawInput.command and
\* rawOutput.command joined by blanks, the output text of rawOutput and
\* whether the content holds a diff; "" stands for an absent property
ToolUpdates ==
  [ toolCallId : ToolCallIds,
    status : {"", "in_progress", "completed", "failed"},
    rawInput : {"", "ls"},
    rawOutput : {"", "cat"},
    output : {"", "out"},
    hasDiff : BOOLEAN ]

ToolCalls ==
  [ toolCallId : ToolCallIds, status : {"pending"}, rawInput : {"", "ls"},
    rawOutput : {""}, output : {""}, hasDiff : {FALSE} ]

\* getToolInfo(update): input and output of the tool
getToolInfo(update) ==
  IF update.status \in {"in_progress", "pending"}
  THEN [input |-> update.rawInput, output |-> ""]
  ELSE [input |-> update.rawOutput, output |-> update.output]

ToolCallState == [toolParts |-> toolParts, toolCallParts |-> toolCallParts]

\* appendToolCall(update)
appendToolCall(ts, update) ==
  LET info == getToolInfo(update)
      invocation == [toolCallId |-> update.toolCallId,
                     invocationMessage |-> info.input,
                     isComplete |-> FALSE, isConfirmed |-> FALSE,
                     isError |-> FALSE, pastTenseMessage |-> "",
                     presentation |-> ""]
  IN [ts EXCEPT !.toolParts = Append(@, invocation),
                !.toolCallParts = (update.toolCallId :> Len(ts.toolParts) + 1) @@ @]

\* appendToolUpdate that keeps the id in the map after a terminal update
appendToolUpdateKeepingId(ts, update) ==
  IF update.toolCallId \notin DOMAIN ts.toolCallParts THEN ts
  ELSE
    LET p == ts.toolCallParts[update.toolCallId]
        info == getToolInfo(update)
    IN IF update.status \notin {"completed", "failed"}
       THEN [ts EXCEPT !.toolParts[p].invocationMessage =
                          IF info.input # "" THEN info.input ELSE @]
       ELSE [ts EXCEPT
               !.toolParts[p] =
                  [@ EXCEPT !.isConfirmed = (update.status = "completed"),
                            !.isError = (update.status = "failed"),
                            !.isComplete = TRUE,
                            !.invocationMessage =
                               IF info.input # "" THEN info.input ELSE @,
                            !.pastTenseMessage =
                               IF info.output # "" THEN info.output ELSE @,
                            !.presentation =
                               IF update.status = "completed"
                               THEN "hiddenAfterComplete" ELSE @]]

\* appendToolUpdate(update), the tool-call element and the map
appendToolUpdate(ts, update) ==
  IF update.toolCallId \notin DOMAIN ts.toolCallParts THEN ts
  ELSE
    LET p == ts.toolCallParts[update.toolCallId]
        info == getToolInfo(update)
    IN IF update.status \notin {"completed", "failed"}
       THEN [ts EXCEPT !.toolParts[p].invocationMessage =
                          IF info.input # "" THEN info.input ELSE @]
       ELSE [ts EXCEPT
               !.toolParts[p] =
                  [@ EXCEPT !.isConfirmed = (update.status = "completed"),
                            !.isError = (update.status = "failed"),
                            !.isComplete = TRUE,
                            !.invocationMessage =
                               IF info.input # "" THEN info.input ELSE @,
                            !.pastTenseMessage =
                               IF info.output # "" THEN info.output ELSE @,
                            !.presentation =
                               IF update.status = "completed"
                               THEN "hiddenAfterComplete" ELSE @],
               !.toolCallParts =
                  [id \in (DOMAIN ts.toolCallParts) \ {update.toolCallId} |->
                      ts.toolCallParts[id]]]

\* appendToolUpdate(update), the end: a terminal update of a tracked id
\* whose content holds a diff pushes a ChatResponseMultiDiffPart
pushesMultiDiff(ts, update) ==
  /\ update.toolCallId \in DOMAIN ts.toolCallParts
  /\ update.status \in {"completed", "failed"}
  /\ update.hasDiff

\* processNotification, case "tool_call"
ToolCall(update) ==
  /\ toolNotifs < MaxToolNotifs
  /\ toolNotifs' = toolNotifs + 1
  /\ toolLast' = <<update>>
  /\ SetTbState(processNotification(TbState, "tool_call", NoContent))
  /\ LET ts == appendToolCall(ToolCallState, update)
     IN /\ toolParts' = ts.toolParts
        /\ toolCallParts' = ts.toolCallParts
  /\ UNCHANGED <<fed, turnsRead>>
  /\ UNCHANGED <<permVars, clientVars, sessVars, toolVars, diffVars,
                 providerVars, tracerVars, termVars, renderVars, storeVars>>

\* processNotification, case "tool_call_update"
ToolCallUpdate(update) ==
  /\ toolNotifs < MaxToolNotifs
  /\ toolNotifs' = toolNotifs + 1
  /\ toolLast' = <<update>>
  /\ LET tb == processNotification(TbState, "tool_call_update", NoContent)
     IN SetTbState(IF pushesMultiDiff(ToolCallState, update)
                   THEN [tb EXCEPT !.currentAgentParts =
                                      Append(@, Part("multidiff", <<>>))]
                   ELSE tb)
  /\ LET ts == appendToolUpdate(ToolCallState, update)
     IN /\ toolParts' = ts.toolParts
        /\ toolCallParts' = ts.toolCallParts
  /\ UNCHANGED <<fed, turnsRead>>
  /\ UNCHANGED <<permVars, clientVars, sessVars, toolVars, diffVars,
                 providerVars, tracerVars, termVars, renderVars, storeVars>>

ToolCallInit ==
  /\ toolParts = <<>>
  /\ toolCallParts = <<>>
  /\ toolLast = <<>>
  /\ toolNotifs = 0

\* tool calls and their updates, between chunks of agent text
ToolCallNext ==
  \/ \E update \in ToolCalls : ToolCall(update)
  \/ \E update \in ToolUpdates : ToolCallUpdate(update)
  \/ ProcessNotification("agent_message_chunk",
        [type |-> "text", text |-> <<"hi">>, entries |-> <<>>])

\* ================================================================
\* FileSessionDb
\* ================================================================
\* the (agentType, sessionId) keys of the records
StoreKeys == {<<"agent", "s1">>, <<"agent", "s2">>}

\* upsertSession after loadStore: the record is found, or pushed to
\* store.sessions
upsertRecord(records, key) ==
  IF \E r \in 1..Len(records) : records[r] = key THEN records
  ELSE Append(records, key)

\* the calls that have not settled
InFlightUpserts(ops) == {i \in 1..Len(ops) : ops[i].pc \notin {"done", "failed"}}

\* upsertSession(agent, info) up to its first file operation: with a
\* cached store the record is upserted in it and persistStore starts to
\* write the temp file; without one readStore starts to read the file
UpsertSession(key) ==
  /\ Len(upserts) < MaxUpserts
  /\ IF cachedStore # 0
     THEN /\ storeObjects' = [storeObjects EXCEPT
                                ![cachedStore] = upsertRecord(@, key)]
          /\ upserts' = Append(upserts,
                [key |-> key, pc |-> "writeFile", store |-> cachedStore,
                 payload |-> upsertRecord(storeObjects[cachedStore], key),
                 overlaps |-> InFlightUpserts(upserts)])
     ELSE /\ upserts' = Append(upserts,
                [key |-> key, pc |-> "readFile", store |-> 0, payload |-> <<>>,
                 overlaps |-> InFlightUpserts(upserts)])
          /\ UNCHANGED storeObjects
  /\ UNCHANGED <<storeFile, tempFile, cachedStore>>
  /\ UNCHANGED <<permVars, clientVars, sessVars, toolVars, diffVars, turnVars,
                 providerVars, tracerVars, termVars, renderVars, toolCallVars>>

\* readStore returns: loadStore caches the store it parsed, upsertSession
\* upserts the record in it, persistStore starts to write the temp file
ReadFileCompletes(i) ==
  /\ i \in 1..Len(upserts)
  /\ upserts[i].pc = "readFile"
  /\ storeObjects' = Append(storeObjects, upsertRecord(storeFile, upserts[i].key))
  /\ cachedStore' = Len(storeObjects) + 1
  /\ upserts' = [upserts EXCEPT ![i].pc = "writeFile",
                                ![i].store = Len(storeObjects) + 1,
                                ![i].payload = upsertRecord(storeFile, upserts[i].key)]
  /\ UNCHANGED <<storeFile, tempFile>>
  /\ UNCHANGED <<permVars, clientVars, sessVars, toolVars, diffVars, turnVars,
                 providerVars, tracerVars, termVars, renderVars, toolCallVars>>

\* fs.promises.writeFile(tempPath, payload) returns; rename is called
WriteFileCompletes(i) ==
  /\ i \in 1..Len(upserts)
  /\ upserts[i].pc = "writeFile"
  /\ tempFile' = <<upserts[i].payload>>
  /\ upserts' = [upserts EXCEPT ![i].pc = "rename"]
  /\ UNCHANGED <<storeFile, cachedStore, storeObjects>>
  /\ UNCHANGED <<permVars, clientVars, sessVars, toolVars, diffVars, turnVars,
                 providerVars, tracerVars, termVars, renderVars, toolCallVars>>

\* fs.promises.rename(tempPath, storePath): ENOENT without a temp file
rename(file, temp) ==
  IF temp = <<>> THEN [error |-> "ENOENT", storeFile |-> file, tempFile |-> temp]
  ELSE [error |-> "", storeFile |-> temp[1], tempFile |-> <<>>]

\* rename returns or throws: an error other than EEXIST and EPERM is
\* rethrown and rejects upsertSession; otherwise the store is cached (and
\* onDataChanged fired)
RenameCompletes(i) ==
  /\ i \in 1..Len(upserts)
  /\ upserts[i].pc = "rename"
  /\ LET renamed == rename(storeFile, tempFile)
     IN /\ storeFile' = renamed.storeFile
        /\ tempFile' = renamed.tempFile
        /\ IF renamed.error = ""
           THEN /\ cachedStore' = upserts[i].store
                /\ upserts' = [upserts EXCEPT ![i].pc = "done"]
           ELSE /\ UNCHANGED cachedStore
                /\ upserts' = [upserts EXCEPT ![i].pc = "failed"]
  /\ UNCHANGED storeObjects
  /\ UNCHANGED <<permVars, clientVars, sessVars, toolVars, diffVars, turnVars,
                 providerVars, tracerVars, termVars, renderVars, toolCallVars>>

StoreInit ==
  /\ storeFile = <<>>
  /\ tempFile = <<>>
  /\ cachedStore = 0
  /\ storeObjects = <<>>
  /\ upserts = <<>>

StoreNext ==
  \/ \E key \in StoreKeys : UpsertSession(key)
  \/ \E i \in 1..MaxUpserts : ReadFileCompletes(i)
  \/ \E i \in 1..MaxUpserts : WriteFileCompletes(i)
  \/ \E i \in 1..MaxUpserts : RenameCompletes(i)

\* ================================================================
\* AcpChatParticipant.handleRequest: the notification subscription
\* ================================================================
\* the callback passed to session.client.onSessionUpdate by request r
\* renders unless the subscription was disposed (the finally block) or the
\* token of the request is cancelled
subscriptionRenders(rs, r) ==
  /\ rs[r].pc = "prompting"
  /\ ~rs[r].tokenCancelled

\* the client emits a notification of session s: every subscription is
\* called
RenderNotification(s) ==
  /\ Len(reqs) > 0
  /\ \A r \in 1..MaxRequests : rendered[r] < MaxRenders
  /\ rendered' = [r \in 1..MaxRequests |->
        IF r <= Len(reqs) /\ reqs[r].session = s /\ subscriptionRenders(reqs, r)
        THEN rendered[r] + 1 ELSE rendered[r]]
  /\ UNCHANGED <<permVars, clientVars, sessVars, toolVars, diffVars, turnVars,
                 providerVars, tracerVars, termVars, toolCallVars, storeVars>>

RenderInit == rendered = [r \in 1..MaxRequests |-> 0]

RenderNext ==
  \/ \E s \in SessionIds, empty \in BOOLEAN : HandleRequestStart(s, empty)
  \/ \E r \in 1..MaxRequests, ok \in BOOLEAN : PromptSettles(r, ok)
  \/ \E r \in 1..MaxRequests : CancelToken(r)
  \/ \E s \in SessionIds : RenderNotification(s)

\* ================================================================
\* AcpClientImpl: the terminals of the agent
\* ================================================================
\* Output is UTF-8: "a" is a one-byte character, "L2" "C" the two bytes of
\* a two-byte character, "L3" "C" "C" the three bytes of U+FFFD.
Utf8Bytes == {"a", "L2", "C"}

\* the data events a child process can emit: any bytes, cut anywhere
Chunks == UNION { [1..n -> Utf8Bytes] : n \in 1..MaxChunkLen }

\* params.outputByteLimit: absent (-1 here), zero or a number of bytes
OutputByteLimits == {-1, 0, 2, 3}

\* Buffer.toString("utf8"): every byte that is not part of a complete
\* character becomes U+FFFD
RECURSIVE utf8Decode(_)
utf8Decode(bytes) ==
  IF bytes = <<>> THEN <<>>
  ELSE IF bytes[1] = "a" THEN <<"a">> \o utf8Decode(Tail(bytes))
  ELSE IF bytes[1] = "L2" /\ Len(bytes) >= 2 /\ bytes[2] = "C"
       THEN <<"e2">> \o utf8Decode(SubSeq(bytes, 3, Len(bytes)))
  ELSE IF bytes[1] = "L3" /\ Len(bytes) >= 3 /\ bytes[2] = "C" /\ bytes[3] = "C"
       THEN <<"FFFD">> \o utf8Decode(SubSeq(bytes, 4, Len(bytes)))
  ELSE <<"FFFD">> \o utf8Decode(Tail(bytes))

\* Buffer.from(text, "utf8")
RECURSIVE utf8Encode(_)
utf8Encode(text) ==
  IF text = <<>> THEN <<>>
  ELSE (IF text[1] = "a" THEN <<"a">>
        ELSE IF text[1] = "e2" THEN <<"L2", "C">>
        ELSE <<"L3", "C", "C">>) \o utf8Encode(Tail(text))

\* the index of the first byte of slice, from start on, that is not a
\* continuation byte
RECURSIVE skipContinuation(_, _)
skipContinuation(slice, start) ==
  IF start <= Len(slice) /\ slice[start] = "C"
  THEN skipContinuation(slice, start + 1)
  ELSE start

trimOutputToLimit(text, limit) ==
  LET buffer == utf8Encode(text)
  IN IF Len(buffer) <= limit THEN [text |-> text, truncated |-> FALSE]
     ELSE LET slice == SubSeq(buffer, Len(buffer) - limit + 1, Len(buffer))
              start == skipContinuation(slice, 1)
          IN [text |-> utf8Decode(SubSeq(slice, start, Len(slice))),
              truncated |-> TRUE]

\* appendTerminalOutput(state, data); produced and discarded record what the
\* process wrote and whether any of it was dropped
appendTerminalOutput(state, data) ==
  LET output == state.output \o utf8Decode(data)
      trimmed == IF state.outputByteLimit > 0
                 THEN trimOutputToLimit(output, state.outputByteLimit)
                 ELSE [text |-> output, truncated |-> FALSE]
  IN [state EXCEPT !.output = trimmed.text,
                   !.truncated = state.truncated \/ trimmed.truncated,
                   !.produced = @ \o data,
                   !.discarded = @ \/ trimmed.text # output]

\* createTerminalState(id, sessionId, proc, outputLimit)
createTerminalState(sessionId, outputByteLimit) ==
  [sessionId |-> sessionId, output |-> <<>>, truncated |-> FALSE,
   outputByteLimit |-> outputByteLimit, exited |-> FALSE, killed |-> FALSE,
   registered |-> TRUE, produced |-> <<>>, discarded |-> FALSE]

NoReply == [op |-> "none", terminalId |-> 0, sessionId |-> "",
            result |-> "none", output |-> <<>>, truncated |-> FALSE]

Reply(op, terminalId, sessionId, result) ==
  [op |-> op, terminalId |-> terminalId, sessionId |-> sessionId,
   result |-> result, output |-> <<>>, truncated |-> FALSE]

\* getTerminalState(terminalId, sessionId): "ok", or the error it throws
getTerminalStateAnySession(states, terminalId, sessionId) ==
  IF ~(terminalId \in 1..Len(states) /\ states[terminalId].registered)
  THEN "resourceNotFound"
  ELSE "ok"

getTerminalState(states, terminalId, sessionId) ==
  IF ~(terminalId \in 1..Len(states) /\ states[terminalId].registered)
  THEN "resourceNotFound"
  ELSE IF states[terminalId].sessionId # sessionId THEN "invalidParams"
  ELSE "ok"

\* createTerminal(params) once the permission was given: the process is
\* spawned and its state registered
CreateTerminal(sessionId, outputByteLimit) ==
  /\ Len(termStates) < MaxTerminals
  /\ termStates' = Append(termStates,
        createTerminalState(sessionId,
           IF outputByteLimit = -1 THEN DEFAULT_TERMINAL_OUTPUT_LIMIT
           ELSE outputByteLimit))
  /\ termReply' = Reply("createTerminal", Len(termStates) + 1, sessionId, "ok")
  /\ UNCHANGED termChunks
  /\ UNCHANGED <<permVars, clientVars, sessVars, toolVars, diffVars, turnVars,
                 providerVars, tracerVars, renderVars, toolCallVars, storeVars>>

\* proc.stdout / proc.stderr "data"
TerminalData(terminalId, data) ==
  /\ terminalId \in 1..Len(termStates)
  /\ ~termStates[terminalId].exited
  /\ termChunks < MaxChunks
  /\ termChunks' = termChunks + 1
  /\ termStates' = [termStates EXCEPT
                      ![terminalId] = appendTerminalOutput(@, data)]
  /\ UNCHANGED termReply
  /\ UNCHANGED <<permVars, clientVars, sessVars, toolVars, diffVars, turnVars,
                 providerVars, tracerVars, renderVars, toolCallVars, storeVars>>

\* proc "exit"
TerminalExit(terminalId) ==
  /\ terminalId \in 1..Len(termStates)
  /\ ~termStates[terminalId].exited
  /\ termStates' = [termStates EXCEPT ![terminalId].exited = TRUE]
  /\ UNCHANGED <<termChunks, termReply>>
  /\ UNCHANGED <<permVars, clientVars, sessVars, toolVars, diffVars, turnVars,
                 providerVars, tracerVars, renderVars, toolCallVars, storeVars>>

\* terminalOutput / waitForTerminalExit / killTerminal / releaseTerminal
TerminalCall(op, terminalId, sessionId) ==
  LET found == getTerminalState(termStates, terminalId, sessionId)
      kill == [termStates EXCEPT ![terminalId].killed =
                 @ \/ ~termStates[terminalId].exited]
  IN /\ IF found # "ok"
        THEN /\ termReply' = Reply(op, terminalId, sessionId, found)
             /\ UNCHANGED termStates
        ELSE IF op = "terminalOutput"
        THEN /\ termReply' = [Reply(op, terminalId, sessionId, "ok") EXCEPT
                                !.output = termStates[terminalId].output,
                                !.truncated = termStates[terminalId].truncated]
             /\ UNCHANGED termStates
        ELSE IF op = "waitForTerminalExit"
        THEN /\ termReply' = Reply(op, terminalId, sessionId,
                                   IF termStates[terminalId].exited
                                   THEN "ok" ELSE "awaiting")
             /\ UNCHANGED termStates
        ELSE IF op = "killTerminal"
        THEN /\ termReply' = Reply(op, terminalId, sessionId, "ok")
             /\ termStates' = kill
        ELSE /\ termReply' = Reply(op, terminalId, sessionId, "ok")
             /\ termStates' = [kill EXCEPT ![terminalId].registered = FALSE]
     /\ UNCHANGED termChunks
     /\ UNCHANGED <<permVars, clientVars, sessVars, toolVars, diffVars, turnVars,
                    providerVars, tracerVars, renderVars, toolCallVars, storeVars>>

TerminalOps == {"terminalOutput", "waitForTerminalExit", "killTerminal",
                "releaseTerminal"}

TerminalInit ==
  /\ termStates = <<>>
  /\ termChunks = 0
  /\ termReply = NoReply

\* the terminals with everything their processes can write
TerminalOutputNext ==
  \/ \E sessionId \in SessionIds, outputByteLimit \in OutputByteLimits :
        CreateTerminal(sessionId, outputByteLimit)
  \/ \E terminalId \in 1..MaxTerminals, data \in Chunks :
        TerminalData(terminalId, data)

\* the terminals with the calls of the agent; the processes write "a"s
TerminalNext ==
  \/ \E sessionId \in SessionIds : CreateTerminal(sessionId, 2)
  \/ \E terminalId \in 1..MaxTerminals : TerminalData(terminalId, <<"a">>)
  \/ \E terminalId \in 1..MaxTerminals : TerminalExit(terminalId)
  \/ \E op \in TerminalOps, terminalId \in 1..MaxTerminals,
        sessionId \in SessionIds : TerminalCall(op, terminalId, sessionId)

\* ------------------------------------------------------------ specification
PermInit ==
  /\ reqs = <<>>
  /\ pendingRequest = [s \in SessionIds |-> 0]
  /\ status = [s \in SessionIds |-> "running"]
  /\ sessionContext = NoCtx
  /\ pendingPrompt = 0
  /\ prompts = <<>>

Init == PermInit /\ ClientInit /\ SessInit /\ ToolInit /\ DiffInit
        /\ TurnInit /\ ProviderInit
        /\ TracerInit /\ TerminalInit /\ RenderInit /\ ToolCallInit
        /\ StoreInit

PermNext ==
  \/ \E s \in SessionIds, empty \in BOOLEAN : HandleRequestStart(s, empty)
  \/ \E r \in 1..MaxRequests, ok \in BOOLEAN : PromptSettles(r, ok)
  \/ \E r \in 1..MaxRequests : CancelToken(r)
  \/ \E s \in SessionIds : RequestPermission(s)
  \/ \E p \in 1..MaxPrompts, sel \in BOOLEAN : ModalAnswered(p, sel)
  \/ \E p \in 1..MaxPrompts, a \in CarouselAnswers : CarouselAnswered(p, a)
  \/ \E id \in PayloadPromptIds, s \in SessionIds, o \in PayloadOptionIds :
        ResolveFromCommand(id, s, o)

SpecPerm == Init /\ [][PermNext]_vars

\* The same operations with every request and permission request made on
\* one session.  client.prompt always settles: the agent answers the prompt
\* RPC, after a cancel with stop reason "cancelled".
PermNextOne ==
  \/ \E empty \in BOOLEAN : HandleRequestStart("s1", empty)
  \/ \E r \in 1..MaxRequests, ok \in BOOLEAN : PromptSettles(r, ok)
  \/ \E r \in 1..MaxRequests : CancelToken(r)
  \/ RequestPermission("s1")
  \/ \E p \in 1..MaxPrompts, sel \in BOOLEAN : ModalAnswered(p, sel)
  \/ \E p \in 1..MaxPrompts, a \in CarouselAnswers : CarouselAnswered(p, a)
  \/ \E id \in PayloadPromptIds, o \in PayloadOptionIds :
        ResolveFromCommand(id, "s1", o)

SpecPermFair ==
  /\ Init
  /\ [][PermNextOne]_vars
  /\ WF_vars(\E r \in 1..MaxRequests, ok \in BOOLEAN : PromptSettles(r, ok))

\* ================================================================
\* Claims about the permission prompts and the in-flight request
\* ================================================================
SpecClient == Init /\ [][ClientNext]_vars

ClientModeNext ==
  \/ \E op \in ClientOps, sid \in SessionIds \cup {"-"} : CallStartMode(op, sid)
  \/ \E c \in 1..MaxCalls : StopProcessResumes(c)
  \/ \E i \in 1..MaxCalls, ok \in BOOLEAN : InitializeResponds(i, ok)
  \/ \E c \in 1..MaxCalls, ok \in BOOLEAN : RpcSettles(c, ok)
  \/ \E sid \in SessionIds : SessionUpdate(sid)
  \/ \E p \in 1..MaxProcs : AgentExit(p)

SpecClientMode == Init /\ [][ClientModeNext]_vars

SpecSess == Init /\ [][SessNext]_vars

SpecTools == Init /\ [][ToolNext]_vars

SpecDiff == Init /\ [][DiffNext]_vars

SpecTurns == Init /\ [][TurnNext]_vars

SpecProvider == Init /\ [][ProviderNext]_vars

SpecTracer == Init /\ [][TracerNext]_vars

SpecRender == Init /\ [][RenderNext]_vars

SpecStore == Init /\ [][StoreNext]_vars

SpecToolCalls == Init /\ [][ToolCallNext]_vars

SpecSessKeys == Init /\ [][SessKeysNext]_vars

SpecTerminal == Init /\ [][TerminalNext]_vars

SpecTerminalOutput == Init /\ [][TerminalOutputNext]_vars

ChatPrompts == {p \in 1..Len(prompts) : prompts[p].via = "chat"}

\* C1: resolveFromCommand called with a promptId that is not the id of the
\* currently pending prompt never resolves the currently pending prompt,
\* even when the payload's sessionId equals the pending prompt's session id.
C1_StaleCommandNeverResolves ==
  [][\A id \in PayloadPromptIds, s \in SessionIds, o \in PayloadOptionIds :
       (/\ pendingPrompt # 0
        /\ prompts[pendingPrompt].promptId # id
        /\ ResolveFromCommand(id, s, o))
       => (/\ pendingPrompt' = pendingPrompt
           /\ prompts'[pendingPrompt].outcome = "pending")]_vars

\* C2: every prompt id allocated by requestPermission under a bound UI
\* context differs from the id of every other prompt of the coordinator.
C2_PromptIdsDistinct ==
  \A p \in ChatPrompts, q \in ChatPrompts :
     p # q => prompts[p].promptId # prompts[q].promptId

\* C3: for any session at most one prompt raised through a bound UI context
\* is awaiting resolution.
C3_OneAwaitingPromptPerSession ==
  \A s \in SessionIds :
     Cardinality({p \in ChatPrompts :
        prompts[p].sessionId = s /\ prompts[p].outcome = "pending"}) <= 1

\* C4: after the user cancels a turn, every requestPermission promise that
\* was awaiting a decision for that session is eventually settled (in the
\* weakest reading: with any outcome); none stays unsettled forever.
C4_CancelSettlesPrompts ==
  \A p \in 1..MaxPrompts :
     [](  (p <= Len(prompts) /\ prompts[p].awaitedAtCancel)
       => <>(p <= Len(prompts) /\ prompts[p].outcome # "pending"))

\* C5: starting a new prompt on a Session cancels the previous
\* InFlightRequest's cancellation handle and disposes its permission
\* binding, so a Session never has two live InFlightRequests: every request
\* still in flight that is not the latest one started on its session has
\* its cancellation handle cancelled and its binding disposed.
C5_OneLiveInFlightRequest ==
  \A r \in 1..Len(reqs) :
     (reqs[r].pc = "prompting" /\ LatestRequestOf(reqs, reqs[r].session) # r)
        => (reqs[r].ctsCancelled /\ reqs[r].bindDisposed)

\* ------------------------------------------------------- connection manager
\* the agent process the client holds is running and was not killed by us
AgentLive ==
  agentProcess # 0 /\ procs[agentProcess].alive /\ ~procs[agentProcess].killed

\* the handshake of the current connection has succeeded
Ready == readyPromise # 0 /\ promises[readyPromise].state = "resolved"

\* this step starts an outbound call of one of the operations ops
CallStarts(ops) ==
  Len(calls') = Len(calls) + 1 /\ calls'[Len(calls')].op \in ops

\* C6: a createSession or loadSession call that starts while the connection
\* manager is Ready on a live agent process, whatever the kind of the call
\* before it, reuses the connection: no process is killed or spawned and no
\* second handshake is started.
C6_ModeSwitchReusesConnection ==
  [][(Ready /\ AgentLive /\ CallStarts({"createSession", "loadSession"}))
       => (procs' = procs /\ promises' = promises
           /\ connection' = connection /\ readyPromise' = readyPromise)]_vars

\* C8: once the agent process has exited the connection manager is not
\* Ready, and an outbound call that starts then spawns a process and starts
\* a new handshake.
C8_ExitDisconnects ==
  [][/\ (agentProcess' # 0 /\ ~procs'[agentProcess'].alive) => ~Ready'
     /\ (agentProcess # 0 /\ ~procs[agentProcess].alive /\ CallStarts(ClientOps))
          => (Len(procs') = Len(procs) + 1 /\ Len(promises') = Len(promises) + 1)]_vars

\* the notifications emitted for session id sid from position from + 1
\* up to position to, in emission order
EmittedFor(sid, from, to) ==
  LET Same(n) == n = sid IN SelectSeq(SubSeq(emitted, from + 1, to), Same)

LoadCalls == {c \in 1..Len(calls) : calls[c].op = "loadSession"}

\* C9: a loadSession call that has settled holds exactly the notifications
\* emitted for its session id between the sending of the load RPC and its
\* settling, in emission order, and its subscription is gone whether the
\* call succeeded or failed; while the RPC is outstanding it holds those
\* emitted so far.
C9_LoadSessionCapture ==
  \A c \in LoadCalls :
    /\ calls[c].pc \in {"done", "failed"} =>
         /\ ~calls[c].subscribed
         /\ calls[c].captured = EmittedFor(calls[c].sid, calls[c].from, calls[c].to)
    /\ calls[c].pc = "awaitRpc" =>
         calls[c].captured = EmittedFor(calls[c].sid, calls[c].from, Len(emitted))

\* a successful loadSession of s1 that captured a notification while one of
\* s2 was emitted during the call and one of s1 after it
C9_Witness ==
  \E c \in LoadCalls :
    /\ calls[c].pc = "done" /\ calls[c].sid = "s1"
    /\ calls[c].captured = <<"s1">>
    /\ \E i \in (calls[c].from + 1)..calls[c].to : emitted[i] = "s2"
    /\ \E i \in (calls[c].to + 1)..Len(emitted) : emitted[i] = "s1"

\* ---------------------------------------------------------- session manager
\* C7: a step in which the stopped event fires leaves every Session of the
\* active map with status failed.
C7_StopMarksSessionsFailed ==
  [][stopFired' > stopFired =>
       \A k \in DOMAIN activeSessions' :
          sessions'[activeSessions'[k]].status = "Failed"]_vars

\* C10: once an ephemeral resource resolves to a Session it resolves to a
\* Session of the same protocol session id after every step, and a
\* createOrGet on it started from then on returns that Session without
\* starting a createSession call.
C10_EphemeralResolvesToSameSession ==
  [][\A resource \in EphemeralResources :
       LET before == getActive(activeSessions, sessionAliases, resource)
           after == getActive(activeSessions', sessionAliases', resource)
       IN before # 0 =>
            /\ after # 0
            /\ sessions'[after].acpSessionId = sessions[before].acpSessionId
            /\ (Len(mgrOps') > Len(mgrOps) /\ mgrOps'[Len(mgrOps')].resource = resource)
                 => (calls' = calls /\ mgrOps'[Len(mgrOps')].result = before)]_vars

\* C11: handling a current_mode_update for mode "build" sets the mode of
\* the Session to "build", fires exactly one options-changed event and
\* starts no call to the agent.
C11_ModeUpdateFromAgent ==
  [][\A obj \in 1..MaxCalls :
       RenderCurrentModeUpdate(obj, "build") =>
          /\ sessions'[obj].modeId = "build"
          /\ Len(optionEvents') = Len(optionEvents) + 1
          /\ optionEvents'[Len(optionEvents')].session = obj
          /\ calls' = calls]_vars

\* a Session in mode "build" whose last options-changed event is the one
\* a current_mode_update for "build" fires, with no changeMode call made
C11_Witness ==
  /\ optionEvents # <<>>
  /\ LET e == optionEvents[Len(optionEvents)] IN
     /\ e.updates = <<[optionId |-> "mode", value |-> "build"]>>
     /\ sessions[e.session].modeId = "build"
  /\ \A c \in 1..Len(calls) : calls[c].op # "changeMode"

\* the value option optionId has in a Session
OptionValueOf(session, optionId) ==
  IF optionId = "mode" THEN session.modeId ELSE session.modelId

\* C12: an updateSessionOptions step with emitEvent = true fires an event
\* only when some option value changed, and the event lists only options
\* whose new value differs from the value the Session had before.
C12_EventListsOnlyChanges ==
  [][\A obj \in 1..MaxCalls, updates \in UpdateLists :
       UpdateSessionOptions(obj, updates, TRUE) =>
          IF \A o \in OptionIds :
                OptionValueOf(sessions'[obj], o) = OptionValueOf(sessions[obj], o)
          THEN optionEvents' = optionEvents
          ELSE /\ Len(optionEvents') = Len(optionEvents) + 1
               /\ \A i \in 1..Len(optionEvents'[Len(optionEvents')].updates) :
                    LET u == optionEvents'[Len(optionEvents')].updates[i] IN
                    u.value # OptionValueOf(sessions[obj], u.optionId)]_vars

\* ------------------------------------------- file-system and terminal host
\* the effects of operation t on the file system and the process table
EffectsOf(t) == {e \in fsLog : e.op = t}

GatedOps == {t \in 1..Len(toolOps) : toolOps[t].kind \in {"write", "terminal"}}

\* an allow-always answer given to another operation of the same kind and
\* the same session
HasAlwaysGrant(ops, kind, sessionId) ==
  \E u \in 1..Len(ops) :
     /\ ops[u].kind = kind
     /\ ops[u].sessionId = sessionId
     /\ ops[u].answer = "allow_always"

\* C13: a write or terminal operation has written, spawned or registered a
\* terminal only if its permission request was answered with an allow
\* option, or it skipped the request and the session holds an allow-always
\* grant for that kind; an operation whose request was denied, cancelled or
\* is still unanswered has no effect.
C13_EffectsNeedPermission ==
  /\ \A t \in GatedOps :
       EffectsOf(t) # {} =>
          \/ toolOps[t].answer \in {"allow_once", "allow_always"}
          \/ /\ ~toolOps[t].prompted
             /\ HasAlwaysGrant(toolOps, toolOps[t].kind, toolOps[t].sessionId)
  /\ Cardinality(terminals) =
       Cardinality({e \in fsLog : e.effect = "spawn"})
  /\ \A t \in GatedOps :
       (toolOps[t].answer \in {"deny", "cancelled"} \/ toolOps[t].pc = "awaitPermission")
          => EffectsOf(t) = {}

\* a write made after an allow-once answer next to a denied write that
\* left no effect
C13_Witness ==
  \E t, u \in GatedOps :
     /\ toolOps[t].kind = "write" /\ toolOps[t].answer = "allow_once"
     /\ \E e \in EffectsOf(t) : e.effect = "writeFile"
     /\ toolOps[u].kind = "write" /\ toolOps[u].answer = "deny"
     /\ toolOps[u].pc = "rejected"

\* C14: a write or terminal operation that reaches the permission step
\* skips the prompt exactly when an earlier request of the same kind in the
\* same session has been answered allow always.
C14_PromptSkippedIffAlwaysGrant ==
  [][\A kind \in {"write", "terminal"}, sessionId \in SessionIds, path \in RequestPaths :
       (ToolRequest(kind, sessionId, path) /\ workspaceOpen /\ isTrusted) =>
          (~toolOps'[Len(toolOps')].prompted
             <=> HasAlwaysGrant(toolOps, kind, sessionId))]_vars

\* a terminal operation of s1 that skipped the prompt after an allow-always
\* answer to an earlier terminal operation of s1
C14_Witness ==
  /\ Len(toolOps) = 2
  /\ toolOps[1].kind = "terminal" /\ toolOps[1].sessionId = "s1"
  /\ toolOps[1].answer = "allow_always"
  /\ toolOps[2].kind = "terminal" /\ toolOps[2].sessionId = "s1"
  /\ toolOps[2].checked /\ ~toolOps[2].prompted /\ toolOps[2].pc = "done"

\* C15: a denied or cancelled permission request rejects its operation and
\* changes nothing else: process, connection, terminals, grants, effects,
\* the other operations and the sessions are as before.
C15_DenialRejectsOnlyTheOperation ==
  [][\A t \in 1..MaxToolOps, answer \in {"deny", "cancelled"} :
       PermissionAnswered(t, answer) =>
          /\ toolOps'[t].pc = "rejected"
          /\ \A u \in 1..Len(toolOps) : u # t => toolOps'[u] = toolOps[u]
          /\ procs' = procs /\ agentProcess' = agentProcess
          /\ connection' = connection /\ readyPromise' = readyPromise
          /\ terminals' = terminals /\ fsLog' = fsLog
          /\ allowedWriteSessions' = allowedWriteSessions
          /\ allowedTerminalSessions' = allowedTerminalSessions
          /\ sessions' = sessions /\ activeSessions' = activeSessions
          /\ pendingRequest' = pendingRequest /\ status' = status]_vars

\* a terminal request of s1 rejected by a denial while the agent is connected
\* and another operation stands completed
C15_Witness ==
  /\ AgentConnected
  /\ \E t, u \in 1..Len(toolOps) :
       /\ toolOps[t].kind = "terminal" /\ toolOps[t].answer = "deny"
       /\ toolOps[t].pc = "rejected"
       /\ u # t /\ toolOps[u].pc = "done"
  /\ allowedTerminalSessions = {}

\* path lies in the tree below root
LiesWithin(root, path) ==
  Len(root) <= Len(path) /\ SubSeq(path, 1, Len(root)) = root

linesOf(script, types) ==
  LET sel == SelectSeq(script, LAMBDA part : part.type \in types)
  IN [k \in 1..Len(sel) |-> sel[k].line]

\* the text whose lines these are
RECURSIVE joinLines(_)
joinLines(lines) ==
  IF lines = <<>> THEN <<>>
  ELSE IF Len(lines) = 1 THEN lines[1]
  ELSE lines[1] \o <<"LF">> \o joinLines(Tail(lines))

\* C17 as stated: for every pair of texts the add and common lines of the
\* script make up the new text exactly, and the remove and common lines the
\* old text exactly.
C17_ScriptReconstructsTexts ==
  diffBody # NoResult =>
     /\ joinLines(linesOf(diffBody[1].script, {"add", "common"})) = diffContent.newText
     /\ joinLines(linesOf(diffBody[1].script, {"remove", "common"})) = diffContent.oldText

\* C17 amended: when the two texts differ after their line endings are
\* normalised, the add and common lines make up the normalised new text and
\* the remove and common lines the normalised old text; when they do not
\* differ there is no script.
C17_ScriptReconstructsNormalizedTexts ==
  diffBody # NoResult =>
     IF normalize(diffContent.oldText) = normalize(diffContent.newText)
     THEN diffBody[1].script = <<>>
     ELSE /\ joinLines(linesOf(diffBody[1].script, {"add", "common"}))
               = normalize(diffContent.newText)
          /\ joinLines(linesOf(diffBody[1].script, {"remove", "common"}))
               = normalize(diffContent.oldText)

\* a script with a common, a removed and an added line, made from a text
\* with a carriage return
C17_Witness ==
  /\ diffBody # NoResult
  /\ \E k \in 1..Len(diffContent.oldText) : diffContent.oldText[k] = "CR"
  /\ \A type \in {"common", "remove", "add"} :
        \E k \in 1..Len(diffBody[1].script) :
           diffBody[1].script[k].type = type /\ diffBody[1].script[k].line # <<>>

\* C18: in a produced script no add is immediately followed by a remove:
\* within a run of operations that are not common every remove comes before
\* every add.
C18_RemovesBeforeAdds ==
  diffBody # NoResult =>
     \A k \in 1..(Len(diffBody[1].script) - 1) :
        ~(diffBody[1].script[k].type = "add"
            /\ diffBody[1].script[k + 1].type = "remove")

\* a script in which a remove is immediately followed by an add, after a
\* common line
C18_Witness ==
  /\ diffBody # NoResult
  /\ \E k \in 1..(Len(diffBody[1].script) - 2) :
        /\ diffBody[1].script[k].type = "common"
        /\ diffBody[1].script[k + 1].type = "remove"
        /\ diffBody[1].script[k + 2].type = "add"

\* the diff content block of C19: old text "a\nb\n", new text "a\nc\nb\n"
InsertionExample ==
  [oldText |-> <<"a", "LF", "b", "LF">>,
   newText |-> <<"a", "LF", "c", "LF", "b", "LF">>]

\* C19 as stated: for the block above the script is common a, add c,
\* common b, and the counts are added 1, removed 0.
C19_InsertionScript ==
  (diffContent = InsertionExample /\ diffBody # NoResult /\ diffStats # NoResult) =>
     /\ diffBody[1].script =
          << DiffOp("common", <<"a">>), DiffOp("add", <<"c">>),
             DiffOp("common", <<"b">>) >>
     /\ diffStats[1] = [added |-> 1, removed |-> 0]

\* C19 amended: the script is common a, add c, common b and a last common
\* operation for the empty line that follows the final line feed; the
\* counts are added 1, removed 0.
C19_InsertionScriptWithLastLine ==
  (diffContent = InsertionExample /\ diffBody # NoResult /\ diffStats # NoResult) =>
     /\ diffBody[1].script =
          << DiffOp("common", <<"a">>), DiffOp("add", <<"c">>),
             DiffOp("common", <<"b">>), DiffOp("common", <<>>) >>
     /\ diffStats[1] = [added |-> 1, removed |-> 0]

\* both functions have been applied to the block of C19
C19_Witness ==
  /\ diffContent = InsertionExample
  /\ diffBody # NoResult /\ diffBody[1].script # <<>>
  /\ diffStats # NoResult

\* ------------------------------------------------------------ turn builder
TextBlock(text) == [type |-> "text", text |-> text, entries |-> <<>>]

\* user_message_chunk("hi"), agent_message_chunk("hello"),
\* user_message_chunk("bye")
AlternationExample ==
  << Notification("user_message_chunk", TextBlock(<<"hi">>)),
     Notification("agent_message_chunk", TextBlock(<<"hello">>)),
     Notification("user_message_chunk", TextBlock(<<"bye">>)) >>

\* C20: after the three notifications above, getTurns returns exactly three
\* turns: the user turn "hi", the agent turn "hello", the user turn "bye".
C20_AlternationKeepsThreeTurns ==
  (fed = AlternationExample /\ turnsRead # <<>> /\ turnsRead[1].at = Len(fed)) =>
     turnsRead[1].turns =
        << ChatRequestTurn(<<"hi">>),
           ChatResponseTurn(<<Part("markdown", <<"hello">>)>>),
           ChatRequestTurn(<<"bye">>) >>

\* the three notifications have been processed and the turns read, with no
\* read in between
C20_Witness ==
  /\ fed = AlternationExample
  /\ turnsRead # <<>> /\ turnsRead[1].at = 3
  /\ Len(turns) = 3
  /\ currentUserMessage = <<>>

\* C21: the list returned by getTurns strictly alternates roles: no two
\* adjacent turns are both user turns or both agent turns.
C21_TurnsAlternate ==
  turnsRead # <<>> =>
     \A k \in 1..(Len(turnsRead[1].turns) - 1) :
        turnsRead[1].turns[k].role # turnsRead[1].turns[k + 1].role

\* the plan parts among the parts of the turns read
PlanPartsRead ==
  { <<k, p>> \in (1..MaxFed) \X (1..MaxFed) :
       /\ k <= Len(turnsRead[1].turns)
       /\ p <= Len(turnsRead[1].turns[k].parts)
       /\ isPlanPart(turnsRead[1].turns[k].parts[p]) }

\* C22: after two successive plan notifications within one agent turn the
\* turn read shows one checklist only, that of the later notification.
C22_LatestPlanOnly ==
  ( /\ Len(fed) = 2
    /\ \A k \in 1..2 : fed[k].sessionUpdate = "plan" /\ fed[k].content.entries # <<>>
    /\ turnsRead # <<>> /\ turnsRead[1].at = 2
    /\ Len(turnsRead[1].turns) = 1 )
  => /\ Cardinality(PlanPartsRead) = 1
     /\ \A kp \in PlanPartsRead :
          turnsRead[1].turns[kp[1]].parts[kp[2]].text
             = <<"## Plan">> \o planMarkdown(fed[2].content.entries)

\* ------------------------------------------------------ connection manager
LiveProcs == {p \in 1..Len(procs) : procs[p].alive}

\* C23: a call of ensureReady made while the ready promise is set (the
\* handshake pending or done) spawns no process and starts no handshake,
\* and at no time are two agent processes alive.
C23_EnsureReadyIdempotent ==
  /\ [](Cardinality(LiveProcs) <= 1)
  /\ [][\A op \in ClientOps, sid \in SessionIds \cup {"-"} :
          (StartCall(op, sid) /\ readyPromise # 0) =>
             /\ procs' = procs
             /\ promises' = promises
             /\ agentProcess' = agentProcess
             /\ readyPromise' = readyPromise]_vars

\* a second call made while the handshake of the first is pending: one
\* process, one handshake, both calls waiting on it
C23_Witness ==
  /\ Len(calls) = 2
  /\ Len(procs) = 1 /\ procs[1].alive
  /\ Len(promises) = 1 /\ promises[1].state = "pending"
  /\ calls[1].creator /\ calls[1].pc = "awaitReady"
  /\ ~calls[2].creator /\ calls[2].pc = "awaitReady" /\ calls[2].promise = 1

\* C24: a handshake that produced no valid response never leaves the client
\* Ready: its ready promise is rejected.
C24_InvalidHandshakeFails ==
  \A i \in 1..Len(promises) :
     promises[i].response \in {"malformed", "error"} => promises[i].state = "rejected"

\* C25: the options-change handler returns only after its changeMode or
\* changeModel call has settled, and fails when the call fails.
C25_OptionChangeAwaited ==
  \A h \in 1..Len(optionChanges) :
     optionChanges[h].call # 0 =>
        /\ optionChanges[h].pc = "returned" => calls[optionChanges[h].call].pc = "done"
        /\ calls[optionChanges[h].call].pc = "failed" => optionChanges[h].pc = "failed"

\* -------------------------------------------------------- permission binding
\* the chat prompts of session s that still await a decision
AwaitingChatPrompts(s) ==
  {p \in 1..Len(prompts) :
      prompts[p].via = "chat" /\ prompts[p].sessionId = s
      /\ prompts[p].outcome = "pending"}

\* C26: when handleRequest binds the response of a new request of session
\* s, every chat prompt of s that was still awaiting a decision is resolved
\* as cancelled, and afterwards the bound context is the one of s.
C26_BindCancelsAwaitingPrompts ==
  [][\A s \in SessionIds :
       HandleRequestStart(s, FALSE) =>
          /\ \A p \in AwaitingChatPrompts(s) : prompts'[p].outcome = "cancelled"
          /\ sessionContext'.sessionId = s]_vars

\* the session of the context a chat prompt was rendered into, as its
\* prompt id carries it
ContextSessionOf(p) == prompts[p].promptId[2]

\* C27: a permission request is rendered into a chat context only if that
\* context was bound for the session of the request.
C27_ChatPromptUsesOwnContext ==
  \A p \in 1..Len(prompts) :
     prompts[p].via = "chat" => ContextSessionOf(p) = prompts[p].sessionId

\* C28: disposing the binding of a request after a newer binding has been
\* made leaves the newer context bound and the prompts raised under it
\* pending.
C28_DisposerClearsOwnBindingOnly ==
  [][\A r \in 1..MaxRequests, ok \in BOOLEAN :
       ( /\ PromptSettles(r, ok)
         /\ sessionContext # NoCtx
         /\ sessionContext.token # pendingRequest[reqs[r].session] )
       => /\ sessionContext' = sessionContext
          /\ \A p \in 1..Len(prompts) :
                (prompts[p].outcome = "pending"
                   /\ prompts[p].listener = sessionContext.token)
                => prompts'[p].outcome = "pending"]_vars

\* C29: a session without an in-flight request is not running.
C29_RunningOnlyWithRequest ==
  \A s \in SessionIds : pendingRequest[s] = 0 => status[s] # "running"

LoggedToolUpdates ==
  { u \in { traceLog[i][1].update[1] : i \in 1..Len(traceLog) } :
          u.sessionUpdate \in {"tool_call", "tool_call_update"} }

\* the text of the content item, the texts of a diff, the command arguments
\* after the first and the outputs of the logged update u are REDACTED,
\* unless the text is one of `kept`
FieldsRedacted(u, kept) ==
  /\ \A item \in { u.content[i] : i \in 1..Len(u.content) } :
       /\ (item.type = "content" /\ item.value[1].type = "text")
             => item.value[1].text \in kept \cup {REDACTED}
       /\ item.type = "diff"
             => /\ item.newText \in kept \cup {REDACTED}
                /\ item.oldText \in kept \cup {REDACTED}
  /\ \A raw \in { u.rawOutput[i] : i \in 1..Len(u.rawOutput) }
                  \cup { u.rawInput[i] : i \in 1..Len(u.rawInput) } :
       \A i \in 2..Len(raw.command) : raw.command[i] = REDACTED
  /\ \A raw \in { u.rawOutput[i] : i \in 1..Len(u.rawOutput) } :
       /\ raw.formatted_output \in {Absent, REDACTED}
       /\ raw.output \in {Absent, REDACTED}
       /\ raw.aggregated_output \in {Absent, REDACTED}

\* C31 (as stated): in the logged trace of a tool call every text content,
\* diff text, command argument after the first and raw output value that
\* is present has been replaced by "<redacted>".
C31_LoggedFieldsRedacted ==
  \A u \in LoggedToolUpdates : FieldsRedacted(u, {Absent})

\* C31 (amended): the same, for every text content and diff text that is
\* not the empty string; an empty text is logged as it is.
C31_LoggedNonEmptyFieldsRedacted ==
  \A u \in LoggedToolUpdates : FieldsRedacted(u, {Absent, ""})

\* a tool call with a text, a raw output command and a raw input command
\* was logged with the text and the arguments redacted
C31_Witness ==
  \E u \in LoggedToolUpdates :
    /\ Len(u.content) = 1 /\ u.content[1].type = "content"
    /\ u.content[1].value[1].text = REDACTED
    /\ Len(u.rawOutput) = 1 /\ u.rawOutput[1].command = <<"bash", REDACTED, REDACTED>>
    /\ Len(u.rawInput) = 1 /\ u.rawInput[1].command = <<"cat", REDACTED>>

\* --------------------------------------------------------------- terminals
IsSuffix(suffix, whole) ==
  /\ Len(suffix) <= Len(whole)
  /\ SubSeq(whole, Len(whole) - Len(suffix) + 1, Len(whole)) = suffix

\* C32: the retained output of every terminal is at most its output byte
\* limit in UTF-8 bytes and is a suffix of everything the process produced,
\* and truncated is true exactly when output was discarded.
C32_RetainedOutputBounded ==
  \A t \in 1..Len(termStates) :
    /\ Len(utf8Encode(termStates[t].output)) <= termStates[t].outputByteLimit
    /\ IsSuffix(termStates[t].output, utf8Decode(termStates[t].produced))
    /\ termStates[t].truncated = termStates[t].discarded

\* C39: a terminal call with a session id other than the creating
\* session's is rejected and changes and reveals nothing; a call on a
\* released terminal finds nothing, and a released id is never registered
\* again.
C39_TerminalsArePrivate ==
  [][/\ \A op \in TerminalOps, terminalId \in 1..MaxTerminals,
           sessionId \in SessionIds :
          (/\ TerminalCall(op, terminalId, sessionId)
           /\ terminalId \in 1..Len(termStates)
           /\ \/ termStates[terminalId].sessionId # sessionId
              \/ ~termStates[terminalId].registered)
            => /\ termStates' = termStates
               /\ termReply'.output = <<>>
               /\ termReply'.result =
                    IF termStates[terminalId].registered
                    THEN "invalidParams" ELSE "resourceNotFound"
     /\ \A t \in 1..Len(termStates) :
          ~termStates[t].registered => ~termStates'[t].registered]_vars

\* session s2 asked for the output of the running terminal of s1, which
\* has output, and was rejected; the other terminal was released
C39_Witness ==
  /\ Len(termStates) = 2
  /\ termStates[1].sessionId = "s1" /\ termStates[1].registered
  /\ termStates[1].output # <<>> /\ ~termStates[1].killed
  /\ ~termStates[2].registered
  /\ termReply.op = "terminalOutput" /\ termReply.terminalId = 1
  /\ termReply.sessionId = "s2" /\ termReply.result = "invalidParams"

\* ------------------------------------------------- superseded requests
\* C33: when the handler of a request that was superseded finishes, the
\* InFlightRequest record of the session, which belongs to the newer
\* request, stays in place and the newer request's permission binding is
\* not disposed.
C33_SupersededCleanupKeepsRecord ==
  [][\A r \in 1..MaxRequests, ok \in BOOLEAN :
       (/\ PromptSettles(r, ok)
        /\ pendingRequest[reqs[r].session] \notin {0, r})
         => /\ pendingRequest' = pendingRequest
            /\ sessionContext' = sessionContext
            /\ reqs'[pendingRequest[reqs[r].session]].bindDisposed
                 = reqs[pendingRequest[reqs[r].session]].bindDisposed]_vars

\* C34: a notification of a session is rendered into no response stream
\* but that of the latest request of the session.
C34_OnlyLatestRequestRenders ==
  [][\A s \in SessionIds :
       RenderNotification(s) =>
         \A r \in 1..Len(reqs) :
            (reqs[r].session = s /\ LatestRequestOf(reqs, s) # r)
               => rendered'[r] = rendered[r]]_vars

\* ---------------------------------------------------- the active sessions
\* C35: two createOrGet calls on one ephemeral resource that have both
\* returned return the same Session, and at most one of them made a
\* createSession call.
C35_OverlappingCreateOrGetShareSession ==
  \A m1, m2 \in 1..Len(mgrOps) :
    (/\ m1 < m2
     /\ mgrOps[m1].resource = mgrOps[m2].resource
     /\ mgrOps[m1].resource \in EphemeralResources
     /\ mgrOps[m1].pc = "done" /\ mgrOps[m2].pc = "done")
      => /\ mgrOps[m1].result = mgrOps[m2].result
         /\ mgrOps[m1].call = 0 \/ mgrOps[m2].call = 0

\* C36: when a createOrGet on the resource of a stored session that found
\* a Session in the active map returns, the map still holds that Session
\* object and the call returns it.
C36_CreateOrGetKeepsLiveSession ==
  [][\A m \in 1..Len(mgrOps) :
       (/\ mgrOps[m].pc = "awaitLoad" /\ mgrOps'[m].pc = "done"
        /\ mgrOps[m].existingActive # 0
        /\ getActive(activeSessions, sessionAliases, mgrOps[m].resource)
              = mgrOps[m].existingActive)
         => /\ getActive(activeSessions', sessionAliases', mgrOps[m].resource)
                 = mgrOps[m].existingActive
            /\ mgrOps'[m].result = mgrOps[m].existingActive]_vars

\* C37: after a syncSessionState that re-keys, every resource that
\* resolved to the Session re-keyed resolves to the modified Session and
\* every resource that resolved to a Session still resolves to one.
C37_RekeyKeepsHandles ==
  [][\A resource \in EphemeralResources \cup PersistedResources,
        modified \in 1..MaxCalls :
       (/\ SyncSessionState(resource, modified)
        /\ resolveActiveKey(sessionAliases, resource) \in DOMAIN activeSessions
        /\ resolveActiveKey(sessionAliases, resource)
              # sessions[modified].acpSessionId)
         => \A handle \in EphemeralResources \cup PersistedResources
                            \cup {AgentSessionId(n) : n \in 1..MaxCalls} :
              LET before == getActive(activeSessions, sessionAliases, handle)
                  after == getActive(activeSessions', sessionAliases', handle)
              IN /\ before # 0 => after # 0
                 /\ before = getActive(activeSessions, sessionAliases, resource)
                      => after = modified]_vars

\* ------------------------------------------------- tool calls in history
\* the elements and the map after a tool_call_update as C38 describes it:
\* nothing for an id the map does not hold, the input text for an update
\* that is not terminal
ToolUpdateAsClaimed(update) ==
  IF update.toolCallId \notin DOMAIN toolCallParts
  THEN /\ toolParts' = toolParts
       /\ toolCallParts' = toolCallParts
  ELSE LET p == toolCallParts[update.toolCallId] IN
       IF update.status \notin {"completed", "failed"}
       THEN /\ toolCallParts' = toolCallParts
            /\ toolParts' = [toolParts EXCEPT ![p].invocationMessage =
                                toolParts'[p].invocationMessage]
       ELSE /\ toolParts'[p].isComplete
            /\ toolParts'[p].isConfirmed = (update.status = "completed")
            /\ toolParts'[p].isError = (update.status = "failed")
            /\ update.toolCallId \notin DOMAIN toolCallParts'
            /\ \A q \in 1..Len(toolParts) : q # p => toolParts'[q] = toolParts[q]

\* an element becomes complete only in a terminal update of its id
CompletedOnlyByTerminalUpdate ==
  \A p \in 1..Len(toolParts) :
    (toolParts'[p].isComplete /\ ~toolParts[p].isComplete)
      => \E update \in ToolUpdates :
            /\ ToolCallUpdate(update)
            /\ update.status \in {"completed", "failed"}
            /\ update.toolCallId \in DOMAIN toolCallParts
            /\ toolCallParts[update.toolCallId] = p

\* C38 (as stated): elements are completed by terminal updates only,
\* other updates refresh the input text only, and an update for an id
\* that is finalized or was never opened changes nothing in the builder.
C38_StaleUpdatesChangeNothing ==
  [][/\ CompletedOnlyByTerminalUpdate
     /\ \A update \in ToolUpdates :
          ToolCallUpdate(update) =>
             /\ ToolUpdateAsClaimed(update)
             /\ update.toolCallId \notin DOMAIN toolCallParts
                  => <<currentUserMessage, currentAgentParts,
                       agentMessageChunks, turns>>'
                       = <<currentUserMessage, currentAgentParts,
                           agentMessageChunks, turns>>]_vars

\* C38 (amended): the same, where an update for an id that is finalized or
\* was never opened changes no tool-call element and not the map.
C38_StaleUpdatesChangeNoElement ==
  [][/\ CompletedOnlyByTerminalUpdate
     /\ \A update \in ToolUpdates :
          ToolCallUpdate(update) => ToolUpdateAsClaimed(update)]_vars

\* the call t1 was completed by a terminal update, and the update
\* processed last, an in_progress update of t1 with another input, left
\* its element as it was
C38_Witness ==
  /\ toolLast # <<>>
  /\ toolLast[1].toolCallId = "t1" /\ toolLast[1].status = "in_progress"
  /\ toolLast[1].rawInput = "ls"
  /\ "t1" \notin DOMAIN toolCallParts
  /\ \E p \in 1..Len(toolParts) :
       /\ toolParts[p].toolCallId = "t1"
       /\ toolParts[p].isComplete /\ toolParts[p].isConfirmed
       /\ toolParts[p].invocationMessage = "cat"

\* ------------------------------------------------------ the session store
\* C40: when two upsertSession calls for different keys that overlapped
\* have both settled and no call is in flight, both completed and the
\* store file holds one record for each of the two keys.
C40_OverlappingUpsertsKeepBoth ==
  \A i, j \in 1..Len(upserts) :
    (/\ i \in upserts[j].overlaps
     /\ upserts[i].key # upserts[j].key
     /\ InFlightUpserts(upserts) = {})
      => /\ upserts[i].pc = "done" /\ upserts[j].pc = "done"
         /\ \A key \in {upserts[i].key, upserts[j].key} :
               Cardinality({r \in 1..Len(storeFile) : storeFile[r] = key}) = 1

====
